---- MODULE Spec2Model ----
(***************************************************************************)
(* A model of the time-entry query/mutation engine of toggl-mcp-server:    *)
(* the bulk create/update/delete helpers and the bulk update tool          *)
(* (helpers/time_entries.py, tools/time_entry_tools.py), the HTTP client   *)
(* wrappers they call (api/client.py) and the multi-criteria search        *)
(* (advanced_search_time_entries).                                         *)
(*                                                                         *)
(* Python values.  A value that may be None is a set with at most one      *)
(* element: None is {} and a value v is {v}.  A dict is a function whose   *)
(* DOMAIN is its set of keys, so "k in d" is k \in DOMAIN d and d.get(k)   *)
(* is d[k] or None.  A str result and a dict result of a helper are told   *)
(* apart by the field "type" of the returned record (isinstance(x, str)).  *)
(***************************************************************************)
EXTENDS Integers, Sequences, FiniteSets, TLC

VARIABLES
    op,            \* which entry point the current invocation runs
    workspace_id,  \* its workspace_id argument (None or an id)
    entries,       \* its entries / time_entry_ids argument
    pc,            \* position of the invocation
    idx,           \* position of the for loop over the input (1-based)
    results,       \* local list "results"
    errors,        \* local list "errors"
    inflight,      \* requests sent whose response has not been received
    requests,      \* every backend request issued so far, in order
    ret,           \* the value the helper returned to its caller
    tool,          \* locals of the tool (tools/time_entry_tools.py) that
                   \* called the helper, NoTool when the helper is called alone
    criteria,         \* arguments of advanced_search_time_entries
    backend_entries,  \* the time entries the backend holds
    all_entries,      \* what client.get("/me/time_entries") returned
    filtered_entries, \* local list "filtered_entries"
    search_pc,        \* position of the search
    search_i,         \* position of its for loop (1-based)
    search_ret,       \* the value the search returned
    range_call,    \* locals of get_time_entries_for_range and of the
                   \* get_time_entries_in_range it calls, NoCall when idle
    fts_call,      \* locals of full_text_search, NoCall when idle
    conv,          \* a call of one TimezoneConverter method: its name, its
                   \* argument and what it returned
    ctx,           \* locals of get_work_context, NoCall when idle
    split_call,    \* locals of split_time_entry, NoCall when idle
    lookup_call,   \* locals of a tool that addresses a time entry by name and
                   \* of the get_time_entry_id_by_name it calls
    pages_call,    \* locals of get_projects_paginated, NoCall when idle
    store,         \* PresetStorage: the contents of presets.json and of
                   \* recurring.json
    store_call,    \* the last call of a PresetStorage method for presets: its
                   \* name, its argument and what it returned
    run_call,      \* locals of run_recurring_entry, NoCall when idle
    delete_call    \* locals of delete_recurring_entry, NoCall when idle

batchVars == <<op, workspace_id, entries, pc, idx, results, errors,
               inflight, requests, ret, tool>>

searchVars == <<criteria, backend_entries, all_entries, filtered_entries,
                search_pc, search_i, search_ret>>

queryVars == <<range_call, fts_call, conv, ctx>>

serviceVars == <<split_call, lookup_call, pages_call, store, store_call,
                 run_call, delete_call>>

vars == <<batchVars, searchVars, queryVars, serviceVars>>

\* what an action of the bulk operations leaves alone, and what an action
\* of the search leaves alone
notBatch == <<searchVars, queryVars, serviceVars>>
notSearch == <<batchVars, queryVars, serviceVars>>
notQuery == <<batchVars, searchVars, serviceVars>>

------------------------------------------------------------------------------
(* Python values *)

None == {}
Some(v) == {v}
TheVal(x) == CHOOSE v \in x : TRUE

\* d.get(k)
Get(d, k) == IF k \in DOMAIN d THEN d[k] ELSE None
\* d.get(k, default)
GetD(d, k, dflt) == IF k \in DOMAIN d THEN d[k] ELSE Some(dflt)
\* Python truthiness of an int-or-None: None and 0 are false
TruthyInt(x) == x # None /\ x # Some(0)
\* Python truthiness of a str-or-None: None and "" are false
TruthyStr(x) == x # None /\ x # Some("")

\* A str that holds a timestamp is a record: kind "ts" for text of the shape
\* YYYY-MM-DDTHH:MM:SS<frac><tz>, where t is the wall-clock value of the
\* first 19 characters in seconds, frac the fractional part ("" or ".000"
\* ...) and tz the suffix ("", "Z" or an offset); kind "text" for any other
\* text, "" included.
Ts(t, frac, tz) == [kind |-> "ts", t |-> t, frac |-> frac, tz |-> tz, text |-> ""]
Text(s) == [kind |-> "text", t |-> 0, frac |-> "", tz |-> "", text |-> s]
TruthyTime(x) == x # None /\ x # Some(Text(""))

\* a returned str / a returned dict / nothing returned yet
Str(s) == [type |-> "str", value |-> s]
Dict(d) == [type |-> "dict", value |-> d]
List(l) == [type |-> "list", value |-> l]
NoRet == [type |-> "none"]
IsStr(r) == r.type = "str"

\* no call of the range query, the full text search, the converter or the
\* work context is running
NoCall == [name |-> "none"]
QueryIdle ==
    /\ range_call = NoCall
    /\ fts_call = NoCall
    /\ conv = NoCall
    /\ ctx = NoCall

\* the files of a PresetStorage just constructed (utils/storage.py:31-39)
EmptyStore == [presets |-> <<>>, recurring_entries |-> <<>>]

\* no split, no lookup by name, no project listing and no call of the
\* automation helpers is running, and nothing was stored
ServiceIdle ==
    /\ split_call = NoCall
    /\ lookup_call = NoCall
    /\ pages_call = NoCall
    /\ store = EmptyStore
    /\ store_call = NoCall
    /\ run_call = NoCall
    /\ delete_call = NoCall

\* no search is running
SearchIdle ==
    /\ criteria = <<>>
    /\ backend_entries = <<>>
    /\ all_entries = NoRet
    /\ filtered_entries = <<>>
    /\ search_pc = "idle"
    /\ search_i = 1
    /\ search_ret = NoRet

------------------------------------------------------------------------------
(* Bounds of the model *)

\* longest input list of a bulk call
MaxBatch == 3

------------------------------------------------------------------------------
(* utils/timezone.py: TimezoneConverter *)

\* self.local_tz = get_localzone(): the zone of the process.  Its UTC offset
\* is TzOffset seconds, and DstSaving seconds more while daylight saving
\* time is on
TzOffset == 19800
DstSaving == 3600

\* datetime.datetime.now(timezone.utc), in seconds
NowUtc == 50000

\* one day, in seconds
Day == 86400

\* the local wall-clock times of the zone's two transitions: the clocks go
\* forward at 02:00 of day 5 and back at 03:00 of day 8
DstStart == 5 * Day + 2 * 3600
DstEnd == 8 * Day + 3 * 3600

\* local_tz.utcoffset(dt) of a datetime given by its wall-clock value (fold
\* 0): a time the clocks skip counts as standard time, a time they show
\* twice as daylight saving time
utcoffset(wall) ==
    IF DstStart + DstSaving <= wall /\ wall < DstEnd THEN TzOffset + DstSaving
    ELSE TzOffset

\* the offset in force at a UTC instant: astimezone(self.local_tz),
\* datetime.now(self.local_tz)
fromutc(t) ==
    IF DstStart - TzOffset <= t /\ t < DstEnd - (TzOffset + DstSaving)
    THEN TzOffset + DstSaving
    ELSE TzOffset

\* the UTC offset a timestamp text spells out, in seconds
TzSeconds(tz) ==
    IF tz = "+05:30" THEN 19800
    ELSE IF tz = "-05:00" THEN 0 - 18000
    ELSE 0

\* format_for_api: strftime("%Y-%m-%dT%H:%M:%S.000Z")
format_for_api(t) == Ts(t, ".000", "Z")

\* local_time_str.split(".")[0].replace("Z", ""): everything from the first
\* "." on is dropped, then every "Z"
clean_time_str(local_time_str) ==
    IF local_time_str.kind = "ts"
    THEN IF local_time_str.frac # ""
         THEN Ts(local_time_str.t, "", "")
         ELSE Ts(local_time_str.t, "", IF local_time_str.tz = "Z" THEN ""
                                       ELSE local_time_str.tz)
    ELSE local_time_str

\* datetime.fromisoformat of a text without fractional part: the wall-clock
\* value and the offset the text carries (aware) or none (naive); ValueError
\* for any other text
fromisoformat(str) ==
    IF str.kind = "ts"
    THEN [ok |-> TRUE, t |-> str.t, aware |-> str.tz # "", offset |-> TzSeconds(str.tz)]
    ELSE [ok |-> FALSE, t |-> 0, aware |-> FALSE, offset |-> 0]

\* (a text that cannot be parsed is dropped: None returned for it)
local_to_utc_failhard(local_time_str) ==
    IF local_time_str.kind = "ts"
    THEN [value |-> Some(format_for_api(local_time_str.t - utcoffset(local_time_str.t))),
          conversion_applied |-> TRUE, error |-> FALSE]
    ELSE [value |-> None, conversion_applied |-> FALSE, error |-> TRUE]
\* (the text taken as UTC already: no offset subtracted)
local_to_utc_mut(local_time_str) ==
    [value |-> Some(format_for_api(local_time_str.t)),
     conversion_applied |-> TRUE, error |-> FALSE]
\* local_to_utc: (utc string or the input, debug_info)
local_to_utc(local_time_str) ==
    IF ~TruthyTime(Some(local_time_str))
    THEN [value |-> None, conversion_applied |-> FALSE, error |-> FALSE]
    ELSE LET assumed_local_naive_dt == fromisoformat(clean_time_str(local_time_str))
         IN  IF assumed_local_naive_dt.ok
             \* replace(tzinfo=self.local_tz) sets the zone, whatever offset
             \* the text carried; astimezone(timezone.utc) subtracts it
             THEN [value |-> Some(format_for_api(assumed_local_naive_dt.t
                                                 - utcoffset(assumed_local_naive_dt.t))),
                   conversion_applied |-> TRUE, error |-> FALSE]
             \* except Exception: return local_time_str, debug_info
             ELSE [value |-> Some(local_time_str),
                   conversion_applied |-> FALSE, error |-> TRUE]

\* the parse of utc_to_local (lines 121-136): strptime with a "Z" pattern
\* for a text ending in "Z", fromisoformat for the others; the datetime read
\* or ValueError
ParseUtc(utc_time_str) ==
    IF utc_time_str.kind # "ts"
    THEN [ok |-> FALSE, t |-> 0, aware |-> FALSE, offset |-> 0]
    ELSE [ok |-> TRUE, t |-> utc_time_str.t, aware |-> utc_time_str.tz \notin {"", "Z"},
          offset |-> TzSeconds(utc_time_str.tz)]

\* utc_dt.replace(tzinfo=timezone.utc): the wall-clock value is kept and
\* the zone set to UTC, so an offset read by the parse is discarded
ReplaceTzinfoUtc(dt) == dt.t

\* utc_to_local: None for an empty text, else the display text
\* "YYYY-MM-DD HH:MM:SS <tz>" of the local wall-clock value, or the
\* "Invalid timestamp format" message
utc_to_local(utc_time_str) ==
    IF ~TruthyTime(Some(utc_time_str)) THEN None
    ELSE LET utc_dt == ParseUtc(utc_time_str)
         IN  IF utc_dt.ok
             \* local_dt = utc_dt.astimezone(self.local_tz)
             THEN Some([kind |-> "local",
                        t |-> ReplaceTzinfoUtc(utc_dt) + fromutc(ReplaceTzinfoUtc(utc_dt))])
             ELSE Some([kind |-> "invalid", t |-> 0])

\* get_date_range(days_offset), called when the clock shows now (UTC
\* seconds): midnight of the local day and the midnight after it, in UTC
\* (the end taken 24 hours after the start in UTC)
get_date_range_fixed(now, days_offset) ==
    LET local_now == now + fromutc(now)
        target_date == (local_now \div Day) + days_offset
        start_dt_local == target_date * Day
        start_dt_utc == start_dt_local - utcoffset(start_dt_local)
    IN  <<format_for_api(start_dt_utc), format_for_api(start_dt_utc + Day)>>
get_date_range(now, days_offset) ==
    LET local_now == now + fromutc(now)
        target_date == (local_now \div Day) + days_offset
        \* combine(target_date, time.min, tzinfo=self.local_tz)
        start_dt_local == target_date * Day
        \* + timedelta(days=1): one day later on the wall clock
        end_dt_local == start_dt_local + Day
    IN  <<format_for_api(start_dt_local - utcoffset(start_dt_local)),
          format_for_api(end_dt_local - utcoffset(end_dt_local))>>

\* (the local text also written over the field it was derived from)
EnrichFieldMut(entry, field, local) ==
    IF field \in DOMAIN entry /\ TruthyTime(entry[field])
    THEN (local :> utc_to_local(TheVal(entry[field])))
         @@ (field :> utc_to_local(TheVal(entry[field]))) @@ entry
    ELSE entry
\* if field in entry and entry[field]: entry[local] = utc_to_local(...)
EnrichField(entry, field, local) ==
    IF field \in DOMAIN entry /\ TruthyTime(entry[field])
    THEN (local :> utc_to_local(TheVal(entry[field]))) @@ entry
    ELSE entry

\* enrich_time_entry_with_local_times
enrich_time_entry_with_local_times(entry) ==
    EnrichField(EnrichField(entry, "start", "start_local"), "stop", "stop_local")

------------------------------------------------------------------------------
(* api/client.py: the outcome of one HTTP exchange and what the wrappers   *)
(* return for it                                                           *)

\* what the transport can produce: a 2xx status, an HTTP error status
\* (raise_for_status), or an exception that is no HTTPStatusError (0)
HttpOutcomes == {200, 404, 0}

HttpOk(status) == status = 200

\* the except branches of get/post/put/delete
ClientError(status) ==
    IF status = 403 THEN "User does not have access to this resource."
    ELSE IF status = 404 THEN "Resource not found."
    ELSE IF status = 500 THEN "Internal Server Error"
    ELSE IF status = 0 THEN "Error: connection failed"
    ELSE "HTTP error"

\* "Remove None values from the payload"
\* (the payload sent as it is, None values included)
StripNoneMut(data) == data
StripNone(data) ==
    [k \in {f \in DOMAIN data : data[f] # None} |-> data[k]]

\* the request as it reaches the backend; item is the input position it
\* was issued for
Request(method, endpoint, body, item) ==
    [method |-> method, endpoint |-> endpoint, body |-> body, item |-> item]

\* the JSON body of a successful response: the backend's answer to the
\* n-th request of the log
ResponseJson(n) == [req |-> n]

\* TogglApiClient.post / put: dict on success, str on error
ClientResult(status, n) ==
    IF HttpOk(status) THEN Dict(ResponseJson(n)) ELSE Str(ClientError(status))

\* TogglApiClient.delete: the status code on success, str on error
ClientDeleteResult(status) ==
    IF HttpOk(status) THEN [type |-> "int", value |-> status]
    ELSE Str(ClientError(status))

------------------------------------------------------------------------------
(* Inputs of the bulk helpers *)

\* for field in ["description", "tags", "project_id", "start", "stop",
\*               "duration", "billable"]
UpdateFields ==
    <<"description", "tags", "project_id", "start", "stop", "duration",
      "billable">>

UpdateFieldSet == {UpdateFields[n] : n \in 1..Len(UpdateFields)}

\* all dicts over the keys K with values in V
DictsOver(K, V) == UNION {[D -> V] : D \in SUBSET K}

\* update inputs of the batch runs: the id is absent, 0 (falsy) or a real
\* id; a field is absent, None or set
BatchUpdateEntries ==
    {i @@ f : i \in DictsOver({"id"}, {Some(0), Some(1), Some(2)}),
              f \in DictsOver({"description"}, {None, Some(7)})}

\* update inputs of the partial-update runs: every combination of absent,
\* None and set over the seven updatable fields
PartialUpdateEntries ==
    {i @@ f : i \in DictsOver({"id"}, {Some(1)}),
              f \in DictsOver(UpdateFieldSet, {None, Some(7)})}

\* create inputs: start absent or set, stop absent or set, duration absent,
\* running (-1) or completed
CreateEntries ==
    {s @@ d : s \in DictsOver({"start"}, {Some(Ts(3600, ".000", "Z"))}),
              d \in DictsOver({"duration"}, {Some(-1), Some(60)})}

\* ids handed to bulk_delete_time_entries
DeleteIds == {1, 2}

SeqsUpTo(S, n) == UNION {[1..m -> S] : m \in 0..n}

WorkspaceIds == {None, Some(1)}

------------------------------------------------------------------------------
(* helpers/time_entries.py: bulk_create_time_entries *)

\* tz_converter.get_current_utc_time() and its rendering, opaque here
CurrentUtcTime == Ts(NowUtc, ".000", "Z")
CurrentLocalTime == utc_to_local(CurrentUtcTime)

CreatePayload(entry_data, ws) ==
    LET payload == [created_with |-> Some("toggl_mcp_server"),
                    description  |-> Get(entry_data, "description"),
                    tags         |-> Get(entry_data, "tags"),
                    project_id   |-> Get(entry_data, "project_id"),
                    start        |-> Get(entry_data, "start"),
                    stop         |-> Get(entry_data, "stop"),
                    duration     |-> GetD(entry_data, "duration", -1),
                    billable     |-> GetD(entry_data, "billable", FALSE),
                    workspace_id |-> ws]
    IN  IF ~TruthyTime(payload.start)
        THEN [payload EXCEPT !.start = Some(CurrentUtcTime)]
        ELSE payload

\* the two shapes of the combined result (lines 934-945 and 1003-1012)
\* (one shape, both lists always)
CreateResultMut(res, errs) ==
    Dict([success |-> res, errors |-> errs, time |-> CurrentLocalTime])
CreateResult(res, errs) ==
    IF errs # <<>>
    THEN Dict([success |-> res, errors |-> errs, time |-> CurrentLocalTime])
    ELSE Dict([entries |-> res, time |-> CurrentLocalTime])

\* (the errors left out of the result)
UpdateResultMut(res, errs) == Dict([entries |-> res])
UpdateResult(res, errs) ==
    IF errs # <<>>
    THEN Dict([success |-> res, errors |-> errs])
    ELSE Dict([entries |-> res])

DeleteResult(res, errs) ==
    Dict([success |-> res, errors |-> errs,
          success_count |-> Len(res), error_count |-> Len(errs)])

\* if workspace_id is None: return "Error: ..."
BulkCreateNoWorkspace ==
    /\ op = "bulk_create" /\ pc = "start" /\ workspace_id = None
    /\ ret' = Str("Error: workspace_id must be provided to bulk_create_time_entries.")
    /\ pc' = "done"
    /\ UNCHANGED <<notBatch, tool, op, workspace_id, entries, idx, results, errors, inflight, requests>>

BulkCreateBegin ==
    /\ op = "bulk_create" /\ pc = "start" /\ workspace_id # None
    /\ pc' = "loop"
    /\ UNCHANGED <<notBatch, tool, op, workspace_id, entries, idx, results, errors, inflight, requests, ret>>

\* response = await client.post(endpoint, payload): the request leaves
BulkCreateSend ==
    /\ op = "bulk_create" /\ pc = "loop" /\ idx <= Len(entries)
    /\ LET req == Request("POST", <<"time_entries">>,
                          StripNone(CreatePayload(entries[idx], workspace_id)), idx)
       IN  /\ requests' = Append(requests, req)
           /\ inflight' = inflight \cup {Len(requests) + 1}
    /\ pc' = "await"
    /\ UNCHANGED <<notBatch, tool, op, workspace_id, entries, idx, results, errors, ret>>

\* the response arrives and is recorded
BulkCreateRecv ==
    /\ op = "bulk_create" /\ pc = "await"
    /\ \E status \in HttpOutcomes :
         LET response == ClientResult(status, Len(requests))
         IN  IF IsStr(response)
             THEN /\ errors' = Append(errors, [data |-> entries[idx],
                                                error |-> response.value,
                                                item |-> idx])
                  /\ UNCHANGED results
             ELSE /\ results' = Append(results, response.value)
                  /\ UNCHANGED errors
    /\ inflight' = inflight \ {Len(requests)}
    /\ idx' = idx + 1
    /\ pc' = "loop"
    /\ UNCHANGED <<notBatch, tool, op, workspace_id, entries, requests, ret>>

BulkCreateReturn ==
    /\ op = "bulk_create" /\ pc = "loop" /\ idx > Len(entries)
    /\ ret' = CreateResult(results, errors)
    /\ pc' = "done"
    /\ UNCHANGED <<notBatch, tool, op, workspace_id, entries, idx, results, errors, inflight, requests>>

------------------------------------------------------------------------------
(* helpers/time_entries.py: bulk_update_time_entries *)

BulkUpdateNoWorkspace ==
    /\ op = "bulk_update" /\ pc = "start" /\ workspace_id = None
    /\ ret' = Str("Error: workspace_id must be provided to bulk_update_time_entries.")
    /\ pc' = "done"
    /\ UNCHANGED <<notBatch, tool, op, workspace_id, entries, idx, results, errors, inflight, requests>>

BulkUpdateBegin ==
    /\ op = "bulk_update" /\ pc = "start" /\ workspace_id # None
    /\ pc' = "loop"
    /\ UNCHANGED <<notBatch, tool, op, workspace_id, entries, idx, results, errors, inflight, requests, ret>>

\* entry_id = entry_data.get("id"); if not entry_id
\* (only a missing key counts as a missing id)
MissingIdMut(entry_data) == "id" \notin DOMAIN entry_data
MissingId(entry_data) == ~TruthyInt(Get(entry_data, "id"))

\* payload = {"created_with": ...}; for field in [...]: if field in
\* entry_data: payload[field] = entry_data[field]
RECURSIVE UpdatePayloadFrom(_, _, _)
UpdatePayloadFrom(entry_data, n, payload) ==
    IF n > Len(UpdateFields) THEN payload
    ELSE LET field == UpdateFields[n]
         IN  UpdatePayloadFrom(entry_data, n + 1,
                IF field \in DOMAIN entry_data
                THEN (field :> entry_data[field]) @@ payload
                ELSE payload)

UpdatePayload(entry_data) ==
    UpdatePayloadFrom(entry_data, 1, [created_with |-> Some("toggl_mcp_server")])

\* errors.append({"data": entry_data, "error": "Missing time entry ID"}); continue
BulkUpdateMissingId ==
    /\ op = "bulk_update" /\ pc = "loop" /\ idx <= Len(entries)
    /\ MissingId(entries[idx])
    /\ errors' = Append(errors, [data |-> entries[idx],
                                 error |-> "Missing time entry ID",
                                 item |-> idx])
    /\ idx' = idx + 1
    /\ UNCHANGED <<notBatch, tool, op, workspace_id, entries, pc, results, inflight, requests, ret>>

BulkUpdateSend ==
    /\ op = "bulk_update" /\ pc = "loop" /\ idx <= Len(entries)
    /\ ~MissingId(entries[idx])
    /\ LET entry_id == TheVal(Get(entries[idx], "id"))
           req == Request("PUT", <<"time_entries", entry_id>>,
                          StripNone(UpdatePayload(entries[idx])), idx)
       IN  /\ requests' = Append(requests, req)
           /\ inflight' = inflight \cup {Len(requests) + 1}
    /\ pc' = "await"
    /\ UNCHANGED <<notBatch, tool, op, workspace_id, entries, idx, results, errors, ret>>

BulkUpdateRecv ==
    /\ op = "bulk_update" /\ pc = "await"
    /\ \E status \in HttpOutcomes :
         LET response == ClientResult(status, Len(requests))
         IN  IF IsStr(response)
             THEN /\ errors' = Append(errors, [id |-> TheVal(Get(entries[idx], "id")),
                                                error |-> response.value,
                                                item |-> idx])
                  /\ UNCHANGED results
             ELSE /\ results' = Append(results, response.value)
                  /\ UNCHANGED errors
    /\ inflight' = inflight \ {Len(requests)}
    /\ idx' = idx + 1
    /\ pc' = "loop"
    /\ UNCHANGED <<notBatch, tool, op, workspace_id, entries, requests, ret>>

BulkUpdateReturn ==
    /\ op = "bulk_update" /\ pc = "loop" /\ idx > Len(entries)
    /\ ret' = UpdateResult(results, errors)
    /\ pc' = "done"
    /\ UNCHANGED <<notBatch, tool, op, workspace_id, entries, idx, results, errors, inflight, requests>>

------------------------------------------------------------------------------
(* helpers/time_entries.py: bulk_delete_time_entries *)

BulkDeleteNoWorkspace ==
    /\ op = "bulk_delete" /\ pc = "start" /\ workspace_id = None
    /\ ret' = Dict([error |-> "Error: workspace_id must be provided to bulk_delete_time_entries."])
    /\ pc' = "done"
    /\ UNCHANGED <<notBatch, tool, op, workspace_id, entries, idx, results, errors, inflight, requests>>

\* (the loop entered without the workspace check)
BulkDeleteBeginMut ==
    /\ op = "bulk_delete" /\ pc = "start"
    /\ pc' = "loop"
    /\ UNCHANGED <<notBatch, tool, op, workspace_id, entries, idx, results, errors, inflight, requests, ret>>

BulkDeleteBegin ==
    /\ op = "bulk_delete" /\ pc = "start" /\ workspace_id # None
    /\ pc' = "loop"
    /\ UNCHANGED <<notBatch, tool, op, workspace_id, entries, idx, results, errors, inflight, requests, ret>>

\* (the request issued and the loop going on without awaiting the response)
BulkDeleteSendMut ==
    /\ op = "bulk_delete" /\ pc = "loop" /\ idx <= Len(entries)
    /\ LET req == Request("DELETE", <<"time_entries", entries[idx]>>, <<>>, idx)
       IN  /\ requests' = Append(requests, req)
           /\ inflight' = inflight \cup {Len(requests) + 1}
    /\ idx' = idx + 1
    /\ UNCHANGED <<notBatch, tool, op, workspace_id, entries, pc, results, errors, ret>>

BulkDeleteSend ==
    /\ op = "bulk_delete" /\ pc = "loop" /\ idx <= Len(entries)
    /\ LET req == Request("DELETE", <<"time_entries", entries[idx]>>, <<>>, idx)
       IN  /\ requests' = Append(requests, req)
           /\ inflight' = inflight \cup {Len(requests) + 1}
    /\ pc' = "await"
    /\ UNCHANGED <<notBatch, tool, op, workspace_id, entries, idx, results, errors, ret>>

\* if isinstance(response, int): results.append(...) else: errors.append(...)
BulkDeleteRecv ==
    /\ op = "bulk_delete" /\ pc = "await"
    /\ \E status \in HttpOutcomes :
         LET response == ClientDeleteResult(status)
         IN  IF response.type = "int"
             THEN /\ results' = Append(results, [id |-> entries[idx],
                                                  status |-> response.value,
                                                  item |-> idx])
                  /\ UNCHANGED errors
             ELSE /\ errors' = Append(errors, [id |-> entries[idx],
                                                error |-> response.value,
                                                item |-> idx])
                  /\ UNCHANGED results
    /\ inflight' = inflight \ {Len(requests)}
    /\ idx' = idx + 1
    /\ pc' = "loop"
    /\ UNCHANGED <<notBatch, tool, op, workspace_id, entries, requests, ret>>

BulkDeleteReturn ==
    /\ op = "bulk_delete" /\ pc = "loop" /\ idx > Len(entries)
    /\ ret' = DeleteResult(results, errors)
    /\ pc' = "done"
    /\ UNCHANGED <<notBatch, tool, op, workspace_id, entries, idx, results, errors, inflight, requests>>

------------------------------------------------------------------------------
(* The bulk helpers called with any input *)

NoTool == [name |-> "none"]

LocalsInit ==
    /\ SearchIdle
    /\ QueryIdle /\ ServiceIdle
    /\ tool = NoTool
    /\ pc = "start"
    /\ idx = 1
    /\ results = <<>>
    /\ errors = <<>>
    /\ inflight = {}
    /\ requests = <<>>
    /\ ret = NoRet

BatchInit ==
    /\ workspace_id \in WorkspaceIds
    /\ \/ op = "bulk_create" /\ entries \in SeqsUpTo(CreateEntries, MaxBatch)
       \/ op = "bulk_update" /\ entries \in SeqsUpTo(BatchUpdateEntries, MaxBatch)
       \/ op = "bulk_delete" /\ entries \in SeqsUpTo(DeleteIds, MaxBatch)
    /\ LocalsInit

BulkCreate ==
    \/ BulkCreateNoWorkspace
    \/ BulkCreateBegin
    \/ BulkCreateSend
    \/ BulkCreateRecv
    \/ BulkCreateReturn

BulkUpdate ==
    \/ BulkUpdateNoWorkspace
    \/ BulkUpdateBegin
    \/ BulkUpdateMissingId
    \/ BulkUpdateSend
    \/ BulkUpdateRecv
    \/ BulkUpdateReturn

BulkDelete ==
    \/ BulkDeleteNoWorkspace
    \/ BulkDeleteBegin
    \/ BulkDeleteSend
    \/ BulkDeleteRecv
    \/ BulkDeleteReturn

BatchNext == BulkCreate \/ BulkUpdate \/ BulkDelete

SpecBatch == BatchInit /\ [][BatchNext]_vars

\* bulk_update_time_entries called with one entry of any shape
PartialInit ==
    /\ op = "bulk_update"
    /\ workspace_id \in WorkspaceIds
    /\ entries \in {<<e>> : e \in PartialUpdateEntries}
    /\ LocalsInit

SpecPartial == PartialInit /\ [][BulkUpdate]_vars

------------------------------------------------------------------------------
(* Name resolution: helpers/workspaces.py, helpers/projects.py and         *)
(* get_time_entry_id_by_name.  A name or description is a sequence of      *)
(* characters.                                                             *)

IntVal(n) == [type |-> "int", value |-> n]

LowerChar(c) ==
    IF c = "A" THEN "a" ELSE IF c = "B" THEN "b" ELSE IF c = "P" THEN "p" ELSE c

\* str.lower()
Lower(str) == [n \in 1..Len(str) |-> LowerChar(str[n])]

\* position of the first dict of list whose field equals name, 0 if none
RECURSIVE FirstMatch(_, _, _, _)
FirstMatch(list, field, name, n) ==
    IF n > Len(list) THEN 0
    ELSE IF Get(list[n], field) = Some(name) THEN n
    ELSE FirstMatch(list, field, name, n + 1)

\* what GET /me can answer for default_workspace_id
DefaultWorkspaceIds == {None, Some(1)}

\* what GET /me/workspaces, GET /me/time_entries and GET .../projects can
\* answer
WorkspaceLists == {<<>>, <<[id |-> Some(1), name |-> Some(<<"w">>)]>>}
TimeEntryLists ==
    {<<>>, <<[id |-> Some(5), description |-> Some(<<"a">>), workspace_id |-> Some(1)]>>}
ProjectLists == {<<>>, <<[id |-> Some(9), name |-> Some(<<"P">>)]>>}

\* get_default_workspace_id, given the outcome of GET /me
get_default_workspace_id(status, default_workspace_id) ==
    IF ~HttpOk(status)
    THEN Str("Failed to fetch default workspace ID: " \o ClientError(status))
    ELSE IF ~TruthyInt(default_workspace_id)
         THEN Str("No default workspace ID found for this user")
         ELSE IntVal(TheVal(default_workspace_id))

\* get_workspace_id_by_name, given the outcome of GET /me/workspaces
get_workspace_id_by_name(status, workspaces, workspace_name) ==
    IF ~HttpOk(status)
    THEN Str("Error fetching workspaces: " \o ClientError(status))
    ELSE LET n == FirstMatch(workspaces, "name", workspace_name, 1)
         IN  IF n = 0 THEN Str(<<"Workspace with name doesn't exist", workspace_name>>)
             ELSE IntVal(TheVal(workspaces[n]["id"]))

\* get_time_entry_id_by_name, given the outcome of GET /me/time_entries;
\* the workspace_id argument is not used by the code
get_time_entry_id_by_name(status, time_entries_response, time_entry_name, ws) ==
    IF ~HttpOk(status)
    THEN Str("Error fetching time entries: " \o ClientError(status))
    ELSE LET n == FirstMatch(time_entries_response, "description", time_entry_name, 1)
         IN  IF n = 0 THEN Str(<<"Time entry with name doesn't exist", time_entry_name>>)
             ELSE IntVal(TheVal(time_entries_response[n]["id"]))

\* get_project_id_by_name -> search_projects_by_name(exact_match=True,
\* case_sensitive=False) -> get_projects_paginated, given the outcome of the
\* GET of the first page (a backend holding fewer than page_size = 50
\* projects answers everything in that page)
RECURSIVE MatchingProjects(_, _, _)
MatchingProjects(projects, query, n) ==
    IF n > Len(projects) THEN <<>>
    ELSE LET project_name == TheVal(GetD(projects[n], "name", <<>>))
             rest == MatchingProjects(projects, query, n + 1)
         IN  IF Lower(project_name) = Lower(query) THEN <<projects[n]>> \o rest ELSE rest

get_project_id_by_name(status, projects, project_name) ==
    IF ~HttpOk(status)
    THEN Str("Error searching for project: " \o ClientError(status))
    ELSE LET matching_projects == MatchingProjects(projects, project_name, 1)
         IN  IF matching_projects = <<>>
             THEN Str(<<"Project with name doesn't exist", project_name>>)
             ELSE IntVal(TheVal(matching_projects[1]["id"]))

------------------------------------------------------------------------------
(* tools/time_entry_tools.py: the bulk_update_time_entries tool *)

\* entries handed to the tool: the time entry is named by id, by
\* description, by both or by neither; an entry named by id or by
\* description may set a new description, tags, a project by name, and
\* start and stop in local time
ToolUpdate ==
    [new_description |-> Some(<<"b">>), tags |-> Some(7),
     project_name |-> Some(<<"p">>),
     start |-> Some(Ts(36000, "", "")), stop |-> Some(Text("soon"))]

ToolUpdateEntries ==
    {i @@ d : i \in DictsOver({"id"}, {Some(0), Some(1)}),
              d \in DictsOver({"description"}, {Some(<<"a">>)})}
    \cup {[id |-> Some(1)] @@ ToolUpdate, [description |-> Some(<<"a">>)] @@ ToolUpdate}

Tool(name, workspace_name, tool_entries) ==
    [name |-> name, workspace_name |-> workspace_name, entries |-> tool_entries,
     processed_entries |-> <<>>, i |-> 1, ret |-> NoRet,
     \* set when a lookup of a workspace, project or time entry by name
     \* returned a str
     unresolved |-> FALSE]

\* workspace_id = await get_default_workspace_id(...) or
\* get_workspace_id_by_name(...); if isinstance(workspace_id, str): return
ToolBulkUpdateWorkspace ==
    /\ tool.name = "bulk_update_time_entries" /\ pc = "tool_ws"
    /\ \E status \in HttpOutcomes, dw \in DefaultWorkspaceIds, wl \in WorkspaceLists :
         LET byDefault == tool.workspace_name = None
             wid == IF byDefault THEN get_default_workspace_id(status, dw)
                    ELSE get_workspace_id_by_name(status, wl, TheVal(tool.workspace_name))
             req == Request("GET", IF byDefault THEN <<"me">> ELSE <<"me", "workspaces">>, <<>>, 0)
         IN  /\ requests' = Append(requests, req)
             /\ IF IsStr(wid)
                THEN /\ tool' = [tool EXCEPT !.ret = wid, !.unresolved = TRUE]
                     /\ pc' = "tool_done"
                     /\ UNCHANGED workspace_id
                ELSE /\ workspace_id' = Some(wid.value)
                     /\ pc' = "tool_loop"
                     /\ UNCHANGED tool
    /\ UNCHANGED <<notBatch, op, entries, idx, results, errors, inflight, ret>>

\* the fields of processed_entry that need no lookup (lines 557-564 and
\* 579-586), put on top of the resolved id
ProcessedFields(entry) ==
    LET d == IF "new_description" \in DOMAIN entry
             THEN [description |-> entry["new_description"]] ELSE <<>>
        simple == [f \in {"tags", "duration", "billable"} \cap DOMAIN entry |-> entry[f]]
        times == [f \in {"start", "stop"} \cap DOMAIN entry |->
                    IF entry[f] = None THEN None
                    ELSE local_to_utc(TheVal(entry[f])).value]
    IN  d @@ simple @@ times

\* one iteration of "for entry in entries" of the tool: resolve the id,
\* then the project, return at the first failure
ToolBulkUpdateProcess ==
    /\ tool.name = "bulk_update_time_entries" /\ pc = "tool_loop"
    /\ tool.i <= Len(tool.entries)
    /\ \E st1 \in HttpOutcomes, tl \in TimeEntryLists,
          st2 \in HttpOutcomes, pl \in ProjectLists :
         LET entry == tool.entries[tool.i]
             byId == "id" \in DOMAIN entry
             byName == ~byId /\ "description" \in DOMAIN entry
             entry_id == IF byId THEN [type |-> "given", value |-> entry["id"]]
                         ELSE IF byName
                              THEN get_time_entry_id_by_name(st1, tl, TheVal(entry["description"]),
                                                             workspace_id)
                              ELSE Str("Each entry must contain either 'id' or 'description' to identify the time entry")
             idFailed == IsStr(entry_id)
             withProject == ~idFailed /\ "project_name" \in DOMAIN entry
             project_id == IF withProject
                           THEN get_project_id_by_name(st2, pl, TheVal(entry["project_name"]))
                           ELSE IntVal(0)
             reqs1 == IF byName
                      THEN <<Request("GET", <<"me", "time_entries">>, <<>>, tool.i)>> ELSE <<>>
             reqs2 == IF withProject
                      THEN <<Request("GET", <<"projects">>, <<>>, tool.i)>> ELSE <<>>
             idField == [id |-> IF byId THEN entry["id"] ELSE Some(entry_id.value)]
             projField == IF withProject THEN [project_id |-> Some(project_id.value)] ELSE <<>>
             processed_entry == idField @@ ProcessedFields(entry) @@ projField
         IN  /\ requests' = requests \o reqs1 \o reqs2
             /\ IF idFailed
                THEN /\ tool' = [tool EXCEPT !.unresolved = byName, !.ret =
                                   IF byName
                                   THEN Str(<<"Error identifying entry", entry_id.value>>)
                                   ELSE entry_id]
                     /\ pc' = "tool_done"
                ELSE IF IsStr(project_id)
                THEN /\ tool' = [tool EXCEPT !.ret = Str(<<"Error with project", project_id.value>>),
                                             !.unresolved = TRUE]
                     /\ pc' = "tool_done"
                ELSE /\ tool' = [tool EXCEPT !.processed_entries = Append(@, processed_entry),
                                             !.i = @ + 1]
                     /\ UNCHANGED pc
    /\ UNCHANGED <<notBatch, op, workspace_id, entries, idx, results, errors, inflight, ret>>

\* result = await helper_bulk_update_time_entries(client, workspace_id,
\*                                                processed_entries)
ToolBulkUpdateCallHelper ==
    /\ tool.name = "bulk_update_time_entries" /\ pc = "tool_loop"
    /\ tool.i > Len(tool.entries)
    /\ entries' = tool.processed_entries
    /\ pc' = "start"
    /\ UNCHANGED <<notBatch, tool, op, workspace_id, idx, results, errors, inflight, requests, ret>>

Enriched(list) == [n \in 1..Len(list) |-> enrich_time_entry_with_local_times(list[n])]

\* the helper has returned: enrich the entries and add timezone_info
ToolBulkUpdateFinish ==
    /\ tool.name = "bulk_update_time_entries" /\ pc = "done"
    /\ LET r1 == IF "entries" \in DOMAIN ret.value
                 THEN [ret.value EXCEPT !["entries"] = Enriched(@)] ELSE ret.value
           r2 == IF "success" \in DOMAIN r1
                 THEN [r1 EXCEPT !["success"] = Enriched(@)] ELSE r1
       IN  tool' = [tool EXCEPT !.ret =
                      IF IsStr(ret) THEN ret
                      ELSE Dict(("timezone_info" :> "tz") @@ r2)]
    /\ pc' = "tool_done"
    /\ UNCHANGED <<notBatch, op, workspace_id, entries, idx, results, errors, inflight, requests, ret>>

WorkspaceNames == {None, Some(<<"w">>)}

ToolInit ==
    /\ SearchIdle
    /\ QueryIdle /\ ServiceIdle
    /\ op = "bulk_update"
    /\ \E wn \in WorkspaceNames, te \in SeqsUpTo(ToolUpdateEntries, MaxBatch) :
         tool = Tool("bulk_update_time_entries", wn, te)
    /\ workspace_id = None
    /\ entries = <<>>
    /\ pc = "tool_ws"
    /\ idx = 1
    /\ results = <<>>
    /\ errors = <<>>
    /\ inflight = {}
    /\ requests = <<>>
    /\ ret = NoRet

ToolNext ==
    \/ ToolBulkUpdateWorkspace
    \/ ToolBulkUpdateProcess
    \/ ToolBulkUpdateCallHelper
    \/ BulkUpdateBegin
    \/ BulkUpdateMissingId
    \/ BulkUpdateSend
    \/ BulkUpdateRecv
    \/ BulkUpdateReturn
    \/ ToolBulkUpdateFinish

SpecTool == ToolInit /\ [][ToolNext]_vars

------------------------------------------------------------------------------
(* tools/time_entry_tools.py: new_time_entry, bulk_create_time_entries and *)
(* bulk_delete_time_entries, and the helper new_time_entry                 *)

\* isinstance(x, str) of what a lookup by name returned: the tool returns
\* (the tool going on with what the lookup returned)
LookupFailedMut(x) == FALSE
LookupFailed(x) == IsStr(x)

\* return {"error": workspace_id} / return workspace_id
ErrorDict(x) == Dict([error |-> x.value])
ErrorReturn(x, as_dict) == IF as_dict THEN ErrorDict(x) ELSE x

\* the workspace lookup all tools start with: the id by default or by name,
\* the error returned, in a dict or as it is, when the lookup failed
ToolWorkspaceStep(name, next_pc, as_dict) ==
    /\ tool.name = name /\ pc = "tool_ws"
    /\ \E status \in HttpOutcomes, dw \in DefaultWorkspaceIds, wl \in WorkspaceLists :
         LET byDefault == tool.workspace_name = None
             wid == IF byDefault THEN get_default_workspace_id(status, dw)
                    ELSE get_workspace_id_by_name(status, wl, TheVal(tool.workspace_name))
             req == Request("GET", IF byDefault THEN <<"me">> ELSE <<"me", "workspaces">>, <<>>, 0)
         IN  /\ requests' = Append(requests, req)
             /\ IF LookupFailed(wid)
                THEN /\ tool' = [tool EXCEPT !.ret = ErrorReturn(wid, as_dict), !.unresolved = IsStr(wid)]
                     /\ pc' = "tool_done"
                     /\ UNCHANGED workspace_id
                ELSE /\ workspace_id' = Some(wid.value)
                     /\ pc' = next_pc
                     /\ tool' = [tool EXCEPT !.unresolved = IsStr(wid)]
    /\ UNCHANGED <<notBatch, op, entries, idx, results, errors, inflight, ret>>

\* the arguments of the new_time_entry tool
NewEntryTool(workspace_name, project_name, start, stop, duration) ==
    [name |-> "new_time_entry", workspace_name |-> workspace_name,
     description |-> Some(<<"a">>), tags |-> None, project_name |-> project_name,
     start |-> start, stop |-> stop, duration |-> duration, billable |-> Some(FALSE),
     project_id |-> None, final_start_for_api |-> None, final_stop_for_api |-> None,
     debug_info |-> <<>>, ret |-> NoRet, unresolved |-> FALSE]

\* lines 78-86
ToolNewEntryWorkspace == ToolWorkspaceStep("new_time_entry", "tool_project", TRUE)

\* lines 88-94: if project_name is not None: look the project up
ToolNewEntryProject ==
    /\ tool.name = "new_time_entry" /\ pc = "tool_project"
    /\ \E status \in HttpOutcomes, pl \in ProjectLists :
         LET named == tool.project_name # None
             project_id_or_error ==
                 IF named THEN get_project_id_by_name(status, pl, TheVal(tool.project_name))
                 ELSE IntVal(0)
         IN  /\ requests' = IF named
                            THEN Append(requests, Request("GET", <<"projects">>, <<>>, 0))
                            ELSE requests
             /\ IF named /\ LookupFailed(project_id_or_error)
                THEN /\ tool' = [tool EXCEPT !.ret = ErrorDict(project_id_or_error),
                                             !.unresolved = TRUE]
                     /\ pc' = "tool_done"
                ELSE /\ tool' = [tool EXCEPT
                                   !.project_id = IF named THEN Some(project_id_or_error.value)
                                                  ELSE None,
                                   !.unresolved = named /\ IsStr(project_id_or_error)]
                     /\ pc' = "tool_convert"
    /\ UNCHANGED <<notBatch, op, workspace_id, entries, idx, results, errors, inflight, ret>>

\* lines 96-128: start and stop converted when given, then the helper called
ToolNewEntryConvert ==
    /\ tool.name = "new_time_entry" /\ pc = "tool_convert"
    /\ LET conv_start == local_to_utc(TheVal(tool.start))
           conv_stop == local_to_utc(TheVal(tool.stop))
           withStart == TruthyTime(tool.start)
           withStop == TruthyTime(tool.stop)
           d1 == IF withStart THEN [start_conversion |-> conv_start] ELSE <<>>
           d2 == IF withStop THEN [stop_conversion |-> conv_stop] ELSE <<>>
       IN  tool' = [tool EXCEPT
                      !.final_start_for_api = IF withStart THEN conv_start.value ELSE None,
                      !.final_stop_for_api = IF withStop THEN conv_stop.value ELSE None,
                      !.debug_info = d1 @@ d2]
    /\ pc' = "start"
    /\ UNCHANGED <<notBatch, op, workspace_id, entries, idx, results, errors, inflight,
                   requests, ret>>

\* new_time_entry: the payload of lines 80-90
NewTimeEntryPayload(ws, description, tags, project_id, start, stop, duration, billable) ==
    [created_with |-> Some("toggl_mcp_server"),
     description  |-> description,
     tags         |-> tags,
     project_id   |-> project_id,
     start        |-> IF TruthyTime(start) THEN start ELSE Some(CurrentUtcTime),
     stop         |-> stop,
     duration     |-> duration,
     billable     |-> billable,
     workspace_id |-> ws]

\* helper new_time_entry (helpers/time_entries.py): the payload is posted
NewEntrySend ==
    /\ op = "new_time_entry" /\ pc = "start"
    /\ IF workspace_id = None
       THEN /\ ret' = Str("Error: workspace_id must be provided to new_time_entry.")
            /\ pc' = "done"
            /\ UNCHANGED <<requests, inflight>>
       ELSE LET payload ==
                    NewTimeEntryPayload(workspace_id, tool.description, tool.tags,
                                        tool.project_id, tool.final_start_for_api,
                                        tool.final_stop_for_api,
                                        \* duration if start else -1
                                        IF TruthyTime(tool.start) THEN tool.duration
                                        ELSE Some(-1),
                                        tool.billable)
            IN  /\ requests' = Append(requests,
                                      Request("POST", <<"time_entries">>, StripNone(payload), 1))
                /\ inflight' = inflight \cup {Len(requests) + 1}
                /\ pc' = "await"
                /\ UNCHANGED ret
    /\ UNCHANGED <<notBatch, tool, op, workspace_id, entries, idx, results, errors>>

\* the response arrives: the error str, or (response, current_local_time)
NewEntryRecv ==
    /\ op = "new_time_entry" /\ pc = "await"
    /\ \E status \in HttpOutcomes :
         LET response == ClientResult(status, Len(requests))
         IN  ret' = IF IsStr(response) THEN response
                    ELSE [type |-> "tuple", value |-> <<response.value, CurrentLocalTime>>]
    /\ inflight' = inflight \ {Len(requests)}
    /\ pc' = "done"
    /\ UNCHANGED <<notBatch, tool, op, workspace_id, entries, idx, results, errors, requests>>

\* lines 130-142
ToolNewEntryFinish ==
    /\ tool.name = "new_time_entry" /\ pc = "done"
    /\ tool' = [tool EXCEPT !.ret =
                  IF ret.type # "tuple"
                  THEN Dict([error |-> ret.value, debug_info |-> tool.debug_info])
                  ELSE Dict([toggle_time_entry_response |-> ret.value[1],
                             api_call_local_time |-> ret.value[2],
                             debug_info |-> tool.debug_info])]
    /\ pc' = "tool_done"
    /\ UNCHANGED <<notBatch, op, workspace_id, entries, idx, results, errors, inflight,
                   requests, ret>>

\* bulk_create_time_entries, lines 427-434
ToolBulkCreateWorkspace == ToolWorkspaceStep("bulk_create_time_entries", "tool_loop", FALSE)

\* one iteration of the loop of lines 438-464: the project looked up when a
\* non-empty name is given, start and stop converted when non-empty
ToolBulkCreateProcess ==
    /\ tool.name = "bulk_create_time_entries" /\ pc = "tool_loop"
    /\ tool.i <= Len(tool.entries)
    /\ \E status \in HttpOutcomes, pl \in ProjectLists :
         LET entry == tool.entries[tool.i]
             named == "project_name" \in DOMAIN entry /\ entry["project_name"] # None
                      /\ entry["project_name"] # Some(<<>>)
             project_id == IF named
                           THEN get_project_id_by_name(status, pl, TheVal(entry["project_name"]))
                           ELSE IntVal(0)
             withProject == IF named
                            THEN ("project_id" :> Some(project_id.value))
                                 @@ [f \in DOMAIN entry \ {"project_name"} |-> entry[f]]
                            ELSE entry
             times == [f \in {g \in {"start", "stop"} \cap DOMAIN entry : TruthyTime(entry[g])}
                         |-> local_to_utc(TheVal(entry[f])).value]
             processed_entry == times @@ withProject
         IN  /\ requests' = IF named
                            THEN Append(requests, Request("GET", <<"projects">>, <<>>, tool.i))
                            ELSE requests
             /\ IF named /\ LookupFailed(project_id)
                THEN /\ tool' = [tool EXCEPT !.ret = Str(<<"Error with project", project_id.value>>),
                                             !.unresolved = TRUE]
                     /\ pc' = "tool_done"
                ELSE /\ tool' = [tool EXCEPT !.processed_entries = Append(@, processed_entry),
                                             !.i = @ + 1,
                                             !.unresolved = @ \/ (named /\ IsStr(project_id))]
                     /\ UNCHANGED pc
    /\ UNCHANGED <<notBatch, op, workspace_id, entries, idx, results, errors, inflight, ret>>

\* result = await helper_bulk_create_time_entries(...)
ToolBulkCreateCallHelper ==
    /\ tool.name = "bulk_create_time_entries" /\ pc = "tool_loop"
    /\ tool.i > Len(tool.entries)
    /\ entries' = tool.processed_entries
    /\ pc' = "start"
    /\ UNCHANGED <<notBatch, tool, op, workspace_id, idx, results, errors, inflight, requests, ret>>

\* lines 473-490
ToolBulkCreateFinish ==
    /\ tool.name = "bulk_create_time_entries" /\ pc = "done"
    /\ LET r1 == IF "entries" \in DOMAIN ret.value
                 THEN [ret.value EXCEPT !["entries"] = Enriched(@)] ELSE ret.value
           r2 == IF "success" \in DOMAIN r1
                 THEN [r1 EXCEPT !["success"] = Enriched(@)] ELSE r1
       IN  tool' = [tool EXCEPT !.ret =
                      IF IsStr(ret) THEN ret
                      ELSE Dict(("timezone_info" :> "tz") @@ r2)]
    /\ pc' = "tool_done"
    /\ UNCHANGED <<notBatch, op, workspace_id, entries, idx, results, errors, inflight, requests, ret>>

\* the arguments of the bulk_delete_time_entries tool
DeleteTool(workspace_name, entry_identifiers, are_descriptions) ==
    [name |-> "bulk_delete_time_entries", workspace_name |-> workspace_name,
     entries |-> entry_identifiers, are_descriptions |-> are_descriptions,
     processed_entries |-> <<>>, i |-> 1, ret |-> NoRet, unresolved |-> FALSE]

\* bulk_delete_time_entries, lines 638-645
ToolBulkDeleteWorkspace == ToolWorkspaceStep("bulk_delete_time_entries", "tool_loop", TRUE)

\* one iteration of the loop of lines 650-660: the description looked up
ToolBulkDeleteResolve ==
    /\ tool.name = "bulk_delete_time_entries" /\ pc = "tool_loop"
    /\ tool.are_descriptions /\ tool.i <= Len(tool.entries)
    /\ \E status \in HttpOutcomes, tl \in TimeEntryLists :
         LET description == tool.entries[tool.i]
             entry_id == get_time_entry_id_by_name(status, tl, description, workspace_id)
         IN  IF LookupFailed(entry_id)
             THEN /\ tool' = [tool EXCEPT
                                !.ret = Dict([error |-> <<"Error identifying entry",
                                                          entry_id.value>>]),
                                !.unresolved = TRUE]
                  /\ pc' = "tool_done"
             ELSE /\ tool' = [tool EXCEPT !.processed_entries = Append(@, entry_id.value),
                                          !.i = @ + 1,
                                          !.unresolved = @ \/ IsStr(entry_id)]
                  /\ UNCHANGED pc
    /\ requests' = Append(requests, Request("GET", <<"me", "time_entries">>, <<>>, tool.i))
    /\ UNCHANGED <<notBatch, op, workspace_id, entries, idx, results, errors, inflight, ret>>

\* entry_ids = [int(id) for id in entry_identifiers], or the ids looked up;
\* result = await helper_bulk_delete_time_entries(...)
ToolBulkDeleteCallHelper ==
    /\ tool.name = "bulk_delete_time_entries" /\ pc = "tool_loop"
    /\ ~tool.are_descriptions \/ tool.i > Len(tool.entries)
    /\ entries' = IF tool.are_descriptions THEN tool.processed_entries ELSE tool.entries
    /\ pc' = "start"
    /\ UNCHANGED <<notBatch, tool, op, workspace_id, idx, results, errors, inflight, requests, ret>>

\* return result
ToolBulkDeleteFinish ==
    /\ tool.name = "bulk_delete_time_entries" /\ pc = "done"
    /\ tool' = [tool EXCEPT !.ret = ret]
    /\ pc' = "tool_done"
    /\ UNCHANGED <<notBatch, op, workspace_id, entries, idx, results, errors, inflight, requests, ret>>

\* inputs of the tools
ProjectNames == {None, Some(<<"p">>), Some(<<"x">>)}
LocalTimes == {None, Some(Text("")), Some(Ts(36000, "", "")), Some(Ts(36000, ".123", "Z")),
               Some(Text("soon"))}
ToolCreateEntries ==
    {n @@ t @@ [description |-> Some(<<"a">>)] :
       n \in DictsOver({"project_name"}, ProjectNames \cup {Some(<<>>)}),
       t \in {<<>>, [start |-> Some(Text("soon"))]}}
    \ {[project_name |-> None, start |-> Some(Text("soon")), description |-> Some(<<"a">>)],
       [project_name |-> Some(<<>>), start |-> Some(Text("soon")), description |-> Some(<<"a">>)]}
Descriptions == {<<"a">>, <<"z">>}

WriteInit ==
    /\ SearchIdle
    /\ QueryIdle /\ ServiceIdle
    /\ workspace_id = None
    /\ entries = <<>>
    /\ pc = "tool_ws"
    /\ idx = 1
    /\ results = <<>>
    /\ errors = <<>>
    /\ inflight = {}
    /\ requests = <<>>
    /\ ret = NoRet
    /\ \E wn \in WorkspaceNames :
         \/ /\ op = "new_time_entry"
            /\ \E pn \in ProjectNames, start \in LocalTimes,
                  stop \in {None, Some(Ts(39600, "", "")), Some(Text("later"))},
                  duration \in {Some(-1), Some(3600)} :
                 tool = NewEntryTool(wn, pn, start, stop, duration)
         \/ /\ op = "bulk_create"
            /\ \E te \in SeqsUpTo(ToolCreateEntries, MaxBatch) :
                 tool = Tool("bulk_create_time_entries", wn, te)
         \/ /\ op = "bulk_update"
            /\ \E te \in SeqsUpTo({[id |-> Some(1)], [id |-> Some(0)],
                                   [description |-> Some(<<"a">>)],
                                   [id |-> Some(1), project_name |-> Some(<<"p">>)]}, MaxBatch) :
                 tool = Tool("bulk_update_time_entries", wn, te)
         \/ /\ op = "bulk_delete"
            /\ \/ \E ids \in SeqsUpTo(DeleteIds, MaxBatch) : tool = DeleteTool(wn, ids, FALSE)
               \/ \E ds \in SeqsUpTo(Descriptions, MaxBatch) : tool = DeleteTool(wn, ds, TRUE)

WriteNext ==
    \/ ToolNewEntryWorkspace
    \/ ToolNewEntryProject
    \/ ToolNewEntryConvert
    \/ NewEntrySend
    \/ NewEntryRecv
    \/ ToolNewEntryFinish
    \/ ToolBulkCreateWorkspace
    \/ ToolBulkCreateProcess
    \/ ToolBulkCreateCallHelper
    \/ BulkCreateBegin
    \/ BulkCreateSend
    \/ BulkCreateRecv
    \/ BulkCreateReturn
    \/ ToolBulkCreateFinish
    \/ ToolBulkUpdateWorkspace
    \/ ToolBulkUpdateProcess
    \/ ToolBulkUpdateCallHelper
    \/ BulkUpdateBegin
    \/ BulkUpdateMissingId
    \/ BulkUpdateSend
    \/ BulkUpdateRecv
    \/ BulkUpdateReturn
    \/ ToolBulkUpdateFinish
    \/ ToolBulkDeleteWorkspace
    \/ ToolBulkDeleteResolve
    \/ ToolBulkDeleteCallHelper
    \/ BulkDeleteBegin
    \/ BulkDeleteSend
    \/ BulkDeleteRecv
    \/ BulkDeleteReturn
    \/ ToolBulkDeleteFinish

SpecWrite == WriteInit /\ [][WriteNext]_vars

------------------------------------------------------------------------------
(* helpers/time_entries.py: advanced_search_time_entries *)

Range(list) == {list[n] : n \in 1..Len(list)}

\* Python's "sub in text" for two strs
Contains(sub, text) ==
    \E k \in 0..(Len(text) - Len(sub)) :
       \A n \in 1..Len(sub) : text[k + n] = sub[n]

\* Python's order on strs, for the timestamp texts of the model: the first
\* 19 characters compare as the wall-clock values do (same width), then the
\* rest of the text decides, character by character ("" first, then "+...",
\* then ".", then "Z")
SuffixOrder == <<"", "+00:00", "+05:30", ".000", ".000+05:30", ".000Z", "Z">>
SuffixRank(ts) ==
    CHOOSE n \in 1..Len(SuffixOrder) : SuffixOrder[n] = ts.frac \o ts.tz
StrLeq(a, b) ==
    IF a.kind = "text" /\ a.text = "" THEN TRUE
    ELSE IF b.kind = "text" /\ b.text = "" THEN FALSE
    ELSE \/ a.t < b.t
         \/ a.t = b.t /\ SuffixRank(a) <= SuffixRank(b)

_matches_text(entry, c) ==
    IF c.search_text = None THEN TRUE
    ELSE LET description == GetD(entry, "description", <<>>)
             text == TheVal(c.search_text)
         IN  IF description = None \/ description = Some(<<>>) THEN FALSE
             ELSE IF ~c.case_sensitive
                  THEN IF ~c.exact_match
                       THEN Contains(Lower(text), Lower(TheVal(description)))
                       ELSE Lower(text) = Lower(TheVal(description))
                  ELSE IF ~c.exact_match
                       THEN Contains(text, TheVal(description))
                       ELSE text = TheVal(description)

_matches_project(entry, c) ==
    IF c.project_ids = None THEN TRUE
    ELSE LET entry_project_id == Get(entry, "project_id")
         IN  IF entry_project_id = None THEN FALSE
             ELSE TheVal(entry_project_id) \in Range(TheVal(c.project_ids))

_in_date_range(entry, c) ==
    LET entry_start == Get(entry, "start")
    IN  IF ~TruthyTime(entry_start) THEN FALSE
        ELSE /\ TruthyTime(c.start_date) => StrLeq(TheVal(c.start_date), TheVal(entry_start))
             /\ TruthyTime(c.end_date) => StrLeq(TheVal(entry_start), TheVal(c.end_date))

\* all(tag in entry_tags for tag in tags): the AND reading of the filter
_has_tag_mut(entry, c) ==
    IF c.tags = None THEN TRUE
    ELSE LET entry_tags == GetD(entry, "tags", <<>>)
         IN  IF entry_tags = None \/ entry_tags = Some(<<>>) THEN FALSE
             ELSE \A n \in 1..Len(TheVal(c.tags)) :
                     TheVal(c.tags)[n] \in Range(TheVal(entry_tags))
_has_tag(entry, c) ==
    IF c.tags = None THEN TRUE
    ELSE LET entry_tags == GetD(entry, "tags", <<>>)
         IN  IF entry_tags = None \/ entry_tags = Some(<<>>) THEN FALSE
             ELSE \E n \in 1..Len(TheVal(c.tags)) :
                     TheVal(c.tags)[n] \in Range(TheVal(entry_tags))

\* the bounds applied to running entries too
_duration_in_range_mut(entry, c) ==
    LET duration == Get(entry, "duration")
    IN  IF duration = None THEN FALSE
        ELSE /\ c.min_duration # None => TheVal(duration) >= TheVal(c.min_duration)
             /\ c.max_duration # None => TheVal(duration) <= TheVal(c.max_duration)
_duration_in_range(entry, c) ==
    LET duration == Get(entry, "duration")
    IN  IF duration = None THEN FALSE
        ELSE IF TheVal(duration) < 0 THEN TRUE
        ELSE /\ c.min_duration # None => TheVal(duration) >= TheVal(c.min_duration)
             /\ c.max_duration # None => TheVal(duration) <= TheVal(c.max_duration)

_matches_billable(entry, c) ==
    IF c.billable = None THEN TRUE
    ELSE GetD(entry, "billable", FALSE) = c.billable

_matches_workspace(entry, c) ==
    IF c.workspace_id = None THEN TRUE
    ELSE Get(entry, "workspace_id") = c.workspace_id

\* the condition of the if inside "for entry in all_entries"
PassesAll(entry, c) ==
    /\ _matches_text(entry, c)
    /\ _matches_project(entry, c)
    /\ _in_date_range(entry, c)
    /\ _has_tag(entry, c)
    /\ _duration_in_range(entry, c)
    /\ _matches_billable(entry, c)
    /\ _matches_workspace(entry, c)

\* if isinstance(all_entries, str):
\*     return f"Failed to retrieve entries: {all_entries}"
\* (the error of client.get handed on as it is)
FailedToRetrieveMut(err) == Str(err)
FailedToRetrieve(err) == Str("Failed to retrieve entries: " \o err)

\* all_entries = await client.get("/me/time_entries"), answered
SearchFetch ==
    /\ search_pc = "start"
    /\ \E status \in HttpOutcomes :
         IF HttpOk(status)
         THEN /\ all_entries' = List(backend_entries)
              /\ search_pc' = "filter"
              /\ UNCHANGED search_ret
         ELSE /\ all_entries' = Str(ClientError(status))
              /\ search_ret' = FailedToRetrieve(ClientError(status))
              /\ search_pc' = "done"
    /\ UNCHANGED <<notSearch, criteria, backend_entries, filtered_entries, search_i>>

\* one iteration of "for entry in all_entries"
SearchFilterStep ==
    /\ search_pc = "filter" /\ search_i <= Len(all_entries.value)
    /\ filtered_entries' =
         IF PassesAll(all_entries.value[search_i], criteria)
         THEN Append(filtered_entries, all_entries.value[search_i])
         ELSE filtered_entries
    /\ search_i' = search_i + 1
    /\ UNCHANGED <<notSearch, criteria, backend_entries, all_entries, search_pc, search_ret>>

\* return filtered_entries
SearchReturn ==
    /\ search_pc = "filter" /\ search_i > Len(all_entries.value)
    /\ search_ret' = List(filtered_entries)
    /\ search_pc' = "done"
    /\ UNCHANGED <<notSearch, criteria, backend_entries, all_entries, filtered_entries, search_i>>

------------------------------------------------------------------------------
(* Inputs of the search *)

\* longest list of time entries the backend holds
MaxEntries == 2

\* every search criterion unset
NoCriteria ==
    [search_text |-> None, project_ids |-> None, start_date |-> None,
     end_date |-> None, tags |-> None, min_duration |-> None,
     max_duration |-> None, billable |-> None, case_sensitive |-> FALSE,
     exact_match |-> FALSE, workspace_id |-> None]

\* the settings of one filter each, as changes to the criteria
TextSettings ==
    {[search_text |-> Some(t), case_sensitive |-> cs, exact_match |-> em] :
        t \in {<<"a">>}, cs \in BOOLEAN, em \in BOOLEAN}
    \cup {[search_text |-> Some(<<>>), case_sensitive |-> FALSE, exact_match |-> FALSE]}
ProjectSettings == {[project_ids |-> Some(<<1>>)], [project_ids |-> Some(<<>>)]}
DateSettings ==
    {[start_date |-> Some(Ts(200, ".000", "Z"))],
     [end_date |-> Some(Ts(200, ".000", "Z"))],
     [start_date |-> Some(Ts(100, ".000", "Z")), end_date |-> Some(Ts(200, ".000", "Z"))],
     [start_date |-> Some(Text("")), end_date |-> Some(Text(""))]}
TagSettings ==
    {[tags |-> Some(<<"urgent">>)], [tags |-> Some(<<>>)],
     [tags |-> Some(<<"urgent", "x">>)]}
DurationSettings ==
    {[min_duration |-> Some(3600), max_duration |-> Some(7200)],
     [min_duration |-> Some(3600)], [max_duration |-> Some(7200)],
     [min_duration |-> Some(0)]}
BillableSettings == {[billable |-> Some(TRUE)], [billable |-> Some(FALSE)]}
WorkspaceSettings == {[workspace_id |-> Some(1)]}

Settings ==
    TextSettings \cup ProjectSettings \cup DateSettings \cup TagSettings
    \cup DurationSettings \cup BillableSettings \cup WorkspaceSettings

\* the criteria of the model: no filter, one filter or two filters set
CriteriaSet ==
    {s1 @@ s2 @@ NoCriteria : s1 \in Settings \cup {<<>>}, s2 \in Settings \cup {<<>>}}

\* a completed, tagged, billable entry of project 1 in workspace 1
FullEntry ==
    [id |-> Some(1), description |-> Some(<<"A", "b">>), project_id |-> Some(1),
     start |-> Some(Ts(200, ".000", "Z")), stop |-> Some(Ts(3800, ".000", "Z")),
     tags |-> Some(<<"urgent", "billing">>), duration |-> Some(3600),
     billable |-> Some(TRUE), workspace_id |-> Some(1)]

\* other values of one field each
FieldValues ==
    {[description |-> None], [description |-> Some(<<>>)], [description |-> Some(<<"b">>)],
     [project_id |-> None], [project_id |-> Some(2)],
     [start |-> None], [start |-> Some(Ts(100, ".000", "Z"))],
     [start |-> Some(Ts(300, ".000", "Z"))],
     [tags |-> None], [tags |-> Some(<<>>)], [tags |-> Some(<<"billing">>)],
     [duration |-> None], [duration |-> Some(-1)], [duration |-> Some(0)],
     [duration |-> Some(3599)], [duration |-> Some(7200)], [duration |-> Some(7201)],
     [billable |-> Some(FALSE)],
     [workspace_id |-> Some(2)]}

\* fields the backend may leave out of an entry
OptionalFields ==
    {"description", "project_id", "start", "stop", "tags", "duration", "billable"}

Without(entry, fields) == [f \in DOMAIN entry \ fields |-> entry[f]]

\* the entries of the model: the full entry with up to two fields changed
\* or left out
EntrySet ==
    {Without(v1 @@ v2 @@ FullEntry, out) :
        v1 \in FieldValues \cup {<<>>}, v2 \in FieldValues \cup {<<>>},
        out \in {{}} \cup {{f} : f \in OptionalFields}}

\* entries told apart by their ids, for the lists of several entries
ListEntries ==
    {FullEntry,
     [id |-> Some(2), description |-> Some(<<"a">>), duration |-> Some(-1),
      start |-> Some(Ts(100, ".000", "Z")), tags |-> Some(<<"billing">>),
      billable |-> Some(FALSE), workspace_id |-> Some(1)],
     [id |-> Some(3), description |-> Some(<<"a">>), project_id |-> Some(1),
      tags |-> Some(<<"urgent">>), duration |-> Some(7200), workspace_id |-> Some(2)],
     [id |-> Some(4), start |-> Some(Ts(300, ".000", "Z")), tags |-> None,
      project_id |-> Some(2), billable |-> Some(TRUE), workspace_id |-> Some(1)]}

BatchIdle ==
    /\ op = "none"
    /\ workspace_id = None
    /\ entries = <<>>
    /\ pc = "idle"
    /\ idx = 1
    /\ results = <<>>
    /\ errors = <<>>
    /\ inflight = {}
    /\ requests = <<>>
    /\ ret = NoRet
    /\ tool = [name |-> "none"]

SearchInit ==
    /\ BatchIdle
    /\ QueryIdle /\ ServiceIdle
    /\ criteria \in CriteriaSet
    /\ backend_entries \in {<<e>> : e \in EntrySet} \cup SeqsUpTo(ListEntries, MaxEntries)
    /\ all_entries = NoRet
    /\ filtered_entries = <<>>
    /\ search_pc = "start"
    /\ search_i = 1
    /\ search_ret = NoRet

SearchNext == SearchFetch \/ SearchFilterStep \/ SearchReturn

SpecSearch == SearchInit /\ [][SearchNext]_vars

------------------------------------------------------------------------------
(* get_time_entries_for_range (tools/time_entry_tools.py) and the          *)
(* get_time_entries_in_range it calls (helpers/time_entries.py)            *)

\* def _in_range(entry): Python's order on strs, both ends included
_in_range(entry, start_time, end_time) ==
    LET entry_start == Get(entry, "start")
    IN  IF entry_start = None THEN FALSE
        ELSE /\ StrLeq(start_time, TheVal(entry_start))
             /\ StrLeq(TheVal(entry_start), end_time)

RECURSIVE Filter(_, _, _, _)
\* [entry for entry in all_entries if _in_range(entry)]
Filter(list, start_time, end_time, n) ==
    IF n > Len(list) THEN <<>>
    ELSE LET rest == Filter(list, start_time, end_time, n + 1)
         IN  IF _in_range(list[n], start_time, end_time)
             THEN <<list[n]>> \o rest ELSE rest

RangeCall(now, from_day_offset, to_day_offset) ==
    [name |-> "get_time_entries_for_range", now |-> now,
     from_day_offset |-> from_day_offset, to_day_offset |-> to_day_offset,
     start_time |-> None, end_time |-> None,
     all_entries |-> NoRet, entries |-> NoRet, ret |-> NoRet, pc |-> "start"]

\* an offset given as None counts as 0
OffsetOf(x) == IF x # None THEN TheVal(x) ELSE 0

\* start_time, end_time = get_date_range(from_day_offset);
\* if to_day_offset != from_day_offset: _, end_time = get_date_range(to_day_offset)
RangeDates ==
    /\ range_call.name = "get_time_entries_for_range" /\ range_call.pc = "start"
    /\ LET from == OffsetOf(range_call.from_day_offset)
           to == OffsetOf(range_call.to_day_offset)
           first == get_date_range(range_call.now, from)
           last == get_date_range(range_call.now, to)
       IN  range_call' = [range_call EXCEPT
                            !.start_time = Some(first[1]),
                            !.end_time = Some(IF to # from THEN last[2] ELSE first[2]),
                            !.pc = "fetch"]
    /\ UNCHANGED <<notQuery, fts_call, conv, ctx>>

\* all_entries = await client.get("/me/time_entries"), answered
RangeFetch ==
    /\ range_call.name = "get_time_entries_for_range" /\ range_call.pc = "fetch"
    /\ \E status \in HttpOutcomes :
         IF HttpOk(status)
         THEN range_call' = [range_call EXCEPT !.all_entries = List(backend_entries),
                                               !.pc = "filter"]
         ELSE range_call' = [range_call EXCEPT
                               !.all_entries = Str(ClientError(status)),
                               !.entries = FailedToRetrieve(ClientError(status)),
                               !.pc = "returned"]
    /\ UNCHANGED <<notQuery, fts_call, conv, ctx>>

\* return [entry for entry in all_entries if _in_range(entry)]
RangeFilter ==
    /\ range_call.name = "get_time_entries_for_range" /\ range_call.pc = "filter"
    /\ range_call' = [range_call EXCEPT
                        !.entries = List(Filter(range_call.all_entries.value,
                                                TheVal(range_call.start_time),
                                                TheVal(range_call.end_time), 1)),
                        !.pc = "returned"]
    /\ UNCHANGED <<notQuery, fts_call, conv, ctx>>

\* the tool hands on the error or enriches the entries
RangeFinish ==
    /\ range_call.name = "get_time_entries_for_range" /\ range_call.pc = "returned"
    /\ range_call' = [range_call EXCEPT
                        !.ret = IF IsStr(range_call.entries) THEN range_call.entries
                                ELSE Dict([time_entries |->
                                             [n \in 1..Len(range_call.entries.value) |->
                                                enrich_time_entry_with_local_times(
                                                  range_call.entries.value[n])],
                                           timezone_info |-> "tz"]),
                        !.pc = "done"]
    /\ UNCHANGED <<notQuery, fts_call, conv, ctx>>

\* the clock values and day offsets of the model
Nows == {NowUtc + Day, NowUtc + Day + 20000}
DayOffsets == {-1, 0, 1}

\* the forms in which the backend spells the start of an entry
StartForms == {<<".000", "Z">>, <<"", "Z">>, <<"", "+00:00">>}

\* the time entries of the backend: starts around the two ends of the local
\* day of the clock, in each form, and entries with no start
RangeEntries(now) ==
    LET D == get_date_range(now, 0)
    IN  {[id |-> Some(1), start |-> Some(Ts(t, f[1], f[2])), duration |-> Some(60)] :
           t \in {D[1].t - 1, D[1].t, D[2].t - 1, D[2].t, D[2].t + 1}, f \in StartForms}
        \cup {[id |-> Some(2), duration |-> Some(60)],
              [id |-> Some(3), start |-> None, duration |-> Some(-1)]}

RangeInit ==
    /\ BatchIdle /\ ServiceIdle
    /\ criteria = <<>> /\ all_entries = NoRet /\ filtered_entries = <<>>
    /\ search_pc = "idle" /\ search_i = 1 /\ search_ret = NoRet
    /\ fts_call = NoCall /\ conv = NoCall /\ ctx = NoCall
    /\ \E now \in Nows, from, to \in {None} \cup {Some(d) : d \in DayOffsets} :
         /\ range_call = RangeCall(now, from, to)
         /\ backend_entries \in SeqsUpTo(RangeEntries(now), MaxEntries)

RangeNext == RangeDates \/ RangeFetch \/ RangeFilter \/ RangeFinish

SpecRange == RangeInit /\ [][RangeNext]_vars

------------------------------------------------------------------------------
(* helpers/time_entries.py: full_text_search *)

\* isinstance(value, str): of the fields of a time entry the search is asked
\* to look at here, description holds a str, tags a list and project_id an
\* int
IsStrValue(field, value) == field = "description"

\* def _matches_query(entry)
_matches_query(entry, query, search_fields, case_sensitive) ==
    \E n \in 1..Len(search_fields) :
       LET value == Get(entry, search_fields[n])
       IN  /\ value # None
           /\ IsStrValue(search_fields[n], TheVal(value))
           /\ IF ~case_sensitive
              THEN Contains(Lower(query), Lower(TheVal(value)))
              ELSE Contains(query, TheVal(value))

RECURSIVE FilterQuery(_, _, _, _, _)
\* [entry for entry in all_entries if _matches_query(entry)]
FilterQuery(list, query, search_fields, case_sensitive, n) ==
    IF n > Len(list) THEN <<>>
    ELSE LET rest == FilterQuery(list, query, search_fields, case_sensitive, n + 1)
         IN  IF _matches_query(list[n], query, search_fields, case_sensitive)
             THEN <<list[n]>> \o rest ELSE rest

\* if search_fields is None: search_fields = ["description"]
FtsCall(query, search_fields, case_sensitive) ==
    [name |-> "full_text_search", query |-> query,
     search_fields |-> IF search_fields = None THEN <<"description">>
                       ELSE TheVal(search_fields),
     case_sensitive |-> case_sensitive,
     all_entries |-> NoRet, ret |-> NoRet, pc |-> "fetch"]

\* all_entries = await client.get("/me/time_entries"), answered
FtsFetch ==
    /\ fts_call.name = "full_text_search" /\ fts_call.pc = "fetch"
    /\ \E status \in HttpOutcomes :
         IF HttpOk(status)
         THEN fts_call' = [fts_call EXCEPT !.all_entries = List(backend_entries),
                                           !.pc = "filter"]
         ELSE fts_call' = [fts_call EXCEPT
                             !.all_entries = Str(ClientError(status)),
                             !.ret = FailedToRetrieve(ClientError(status)),
                             !.pc = "done"]
    /\ UNCHANGED <<notQuery, range_call, conv, ctx>>

FtsFilter ==
    /\ fts_call.name = "full_text_search" /\ fts_call.pc = "filter"
    /\ fts_call' = [fts_call EXCEPT
                      !.ret = List(FilterQuery(fts_call.all_entries.value, fts_call.query,
                                               fts_call.search_fields,
                                               fts_call.case_sensitive, 1)),
                      !.pc = "done"]
    /\ UNCHANGED <<notQuery, range_call, conv, ctx>>

Queries == {<<>>, <<"a">>, <<"A", "b">>, <<"u">>}
SearchFieldLists ==
    {None, Some(<<>>), Some(<<"tags">>), Some(<<"project_id", "description">>),
     Some(<<"stop">>)}

FtsInit ==
    /\ BatchIdle /\ ServiceIdle
    /\ criteria = <<>> /\ all_entries = NoRet /\ filtered_entries = <<>>
    /\ search_pc = "idle" /\ search_i = 1 /\ search_ret = NoRet
    /\ range_call = NoCall /\ conv = NoCall /\ ctx = NoCall
    /\ \E q \in Queries, sf \in SearchFieldLists, cs \in BOOLEAN :
         fts_call = FtsCall(q, sf, cs)
    /\ backend_entries \in SeqsUpTo(ListEntries, MaxEntries)

FtsNext == FtsFetch \/ FtsFilter

SpecFts == FtsInit /\ [][FtsNext]_vars

------------------------------------------------------------------------------
(* The three queries that fetch the user's time entries *)

FetchInit ==
    \/ RangeInit
    \/ FtsInit
    \/ /\ BatchIdle /\ QueryIdle /\ ServiceIdle
       /\ criteria \in {NoCriteria} \cup {s @@ NoCriteria : s \in TextSettings}
       /\ backend_entries \in SeqsUpTo(ListEntries, MaxEntries)
       /\ all_entries = NoRet /\ filtered_entries = <<>>
       /\ search_pc = "start" /\ search_i = 1 /\ search_ret = NoRet

FetchNext == RangeNext \/ FtsNext \/ SearchNext

SpecFetch == FetchInit /\ [][FetchNext]_vars

------------------------------------------------------------------------------
(* helpers/time_entries.py: get_work_context.  A dict that is iterated     *)
(* (project_durations with project_counts, tag_counts, projects_info) is   *)
(* the sequence of its items in insertion order.                           *)

\* an exception left the function
Raised(e) == [type |-> "raised", value |-> e]
\* response.json() of a null payload
Null == [type |-> "null"]

\* how many entries of each top list are kept: [:5]
TopN == 5

\* d[key] = d.get(key, 0) + inc on a dict kept as its items in insertion
\* order; counted tells whether the item also counts occurrences
Bump(items, key, inc) ==
    IF \E k \in 1..Len(items) : items[k].key = key
    THEN [k \in 1..Len(items) |->
            IF items[k].key = key
            THEN [items[k] EXCEPT !.value = @ + inc, !.count = @ + 1]
            ELSE items[k]]
    ELSE Append(items, [key |-> key, value |-> inc, count |-> 1])

RECURSIVE CountTags(_, _, _)
\* for tag in tags: tag_counts[tag] = tag_counts.get(tag, 0) + 1
CountTags(tag_counts, tags, n) ==
    IF n > Len(tags) THEN tag_counts
    ELSE CountTags(Bump(tag_counts, tags[n], 1), tags, n + 1)

\* one step of sorted(..., key=value, reverse=True), a stable sort: an item
\* goes after the items of greater or equal value that came before it
InsertDesc(sorted, x) ==
    LET k == Cardinality({j \in 1..Len(sorted) : sorted[j].value >= x.value})
    IN  SubSeq(sorted, 1, k) \o <<x>> \o SubSeq(sorted, k + 1, Len(sorted))

RECURSIVE SortedDesc(_, _)
SortedDesc(items, n) ==
    IF n = 0 THEN <<>> ELSE InsertDesc(SortedDesc(items, n - 1), items[n])

\* sorted(items, key=..., reverse=True)[:5]
Top(items) ==
    LET sorted == SortedDesc(items, Len(items))
    IN  SubSeq(sorted, 1, IF Len(sorted) < TopN THEN Len(sorted) ELSE TopN)

RECURSIVE ProjectsInfo(_, _, _)
\* lines 498-506: the projects of the response that have a duration, in the
\* order of the response (key is the project id, kept beside the name)
ProjectsInfo(projects_response, project_durations, n) ==
    IF n > Len(projects_response) THEN <<>>
    ELSE LET project == projects_response[n]
             found == {k \in 1..Len(project_durations) :
                         Some(project_durations[k].key) = Get(project, "id")}
             rest == ProjectsInfo(projects_response, project_durations, n + 1)
         IN  IF found = {} THEN rest
             ELSE LET item == project_durations[CHOOSE k \in found : TRUE]
                  IN  <<[key |-> item.key, name |-> Get(project, "name"),
                         value |-> item.value, count |-> item.count]>> \o rest

CtxCall ==
    [name |-> "get_work_context", current_entry |-> NoRet, recent_entries |-> <<>>,
     i |-> 1, total_tracked_duration |-> 0, project_durations |-> <<>>,
     tag_counts |-> <<>>, entry_descriptions |-> {}, workspace_id |-> None,
     projects_response |-> NoRet, projects_info |-> <<>>, ret |-> NoRet, pc |-> "current"]

\* what GET /me/time_entries/current can answer: null when nothing runs, an
\* empty object, a running entry, an entry whose duration is null
CurrentPayloads ==
    {Null,
     Dict(<<>>),
     Dict([id |-> Some(8), description |-> Some(<<"a">>),
           start |-> Some(Ts(NowUtc - 60, "", "Z")), duration |-> Some(-1)]),
     Dict([id |-> Some(8), start |-> Some(Ts(NowUtc - 60, "", "Z")), duration |-> None])}

\* lines 431-434
CtxCurrent ==
    /\ ctx.name = "get_work_context" /\ ctx.pc = "current"
    /\ \E status \in HttpOutcomes, payload \in CurrentPayloads :
         LET current_entry == IF HttpOk(status) THEN payload ELSE Str(ClientError(status))
         IN  ctx' = IF IsStr(current_entry)
                    THEN [ctx EXCEPT !.current_entry = current_entry,
                                     !.ret = Str("Error retrieving current time entry: "
                                                 \o current_entry.value),
                                     !.pc = "done"]
                    ELSE [ctx EXCEPT !.current_entry = current_entry, !.pc = "recent"]
    /\ UNCHANGED <<notQuery, range_call, fts_call, conv>>

\* lines 438-450: the entries of the last 7 days
CtxRecent ==
    /\ ctx.name = "get_work_context" /\ ctx.pc = "recent"
    /\ \E status \in HttpOutcomes :
         LET now_str == format_for_api(NowUtc)
             week_ago_str == format_for_api(NowUtc - 7 * Day)
             recent_entries ==
                 IF HttpOk(status)
                 THEN List(Filter(backend_entries, week_ago_str, now_str, 1))
                 ELSE FailedToRetrieve(ClientError(status))
         IN  ctx' = IF IsStr(recent_entries)
                    THEN [ctx EXCEPT !.ret = Str("Error retrieving recent time entries: "
                                                 \o recent_entries.value),
                                     !.pc = "done"]
                    ELSE [ctx EXCEPT !.recent_entries = recent_entries.value, !.pc = "stats"]
    /\ UNCHANGED <<notQuery, range_call, fts_call, conv>>

\* one iteration of the loop of lines 459-479; iterating tags that are None
\* raises TypeError
CtxStatsStep ==
    /\ ctx.name = "get_work_context" /\ ctx.pc = "stats"
    /\ ctx.i <= Len(ctx.recent_entries)
    /\ LET entry == ctx.recent_entries[ctx.i]
           duration == GetD(entry, "duration", 0)
           counted == TruthyInt(duration) /\ TheVal(duration) > 0
           project_id == Get(entry, "project_id")
           tags == GetD(entry, "tags", <<>>)
           description == Get(entry, "description")
           afterDuration ==
               [ctx EXCEPT
                  !.total_tracked_duration = IF counted THEN @ + TheVal(duration) ELSE @,
                  !.project_durations =
                      IF counted /\ TruthyInt(project_id)
                      THEN Bump(@, TheVal(project_id), TheVal(duration)) ELSE @]
       IN  ctx' = IF tags = None
                  THEN [afterDuration EXCEPT !.ret = Raised("TypeError"), !.pc = "raised"]
                  ELSE [afterDuration EXCEPT
                          !.tag_counts = CountTags(@, TheVal(tags), 1),
                          !.entry_descriptions =
                              IF description # None /\ description # Some(<<>>)
                              THEN @ \cup description ELSE @,
                          !.i = @ + 1]
    /\ UNCHANGED <<notQuery, range_call, fts_call, conv>>

\* what GET /workspaces/{id}/projects can answer
Digits == <<"1", "2", "3", "4", "5", "6", "7">>
CtxProject(n) == [id |-> Some(n), name |-> Some(<<"P", Digits[n]>>), color |-> Some("c")]
CtxProjectLists ==
    {<<>>, <<CtxProject(2), CtxProject(1)>>,
     <<CtxProject(1), CtxProject(2), CtxProject(3), CtxProject(4), CtxProject(5),
       CtxProject(6), CtxProject(7)>>}

\* lines 484-506: the projects of the workspace of the first entry
CtxProjects ==
    /\ ctx.name = "get_work_context" /\ ctx.pc = "stats"
    /\ ctx.i > Len(ctx.recent_entries)
    /\ \E status \in HttpOutcomes, pl \in CtxProjectLists :
         LET workspace == IF ctx.recent_entries # <<>>
                          THEN Get(ctx.recent_entries[1], "workspace_id") ELSE None
             projects_response ==
                 IF ~TruthyInt(workspace) THEN NoRet
                 ELSE IF HttpOk(status) THEN List(pl) ELSE Str(ClientError(status))
         IN  ctx' = [ctx EXCEPT
                       !.workspace_id = workspace,
                       !.projects_response = projects_response,
                       !.projects_info =
                           IF projects_response.type = "list"
                           THEN ProjectsInfo(projects_response.value, ctx.project_durations, 1)
                           ELSE <<>>,
                       !.pc = "build"]
    /\ UNCHANGED <<notQuery, range_call, fts_call, conv>>

\* lines 509-546: the two top lists and the context; current_entry.get
\* raises AttributeError when current_entry is None, and "< 0" raises
\* TypeError when the duration of the current entry is None
CtxBuild ==
    /\ ctx.name = "get_work_context" /\ ctx.pc = "build"
    /\ LET current_entry == ctx.current_entry
           most_used_projects == Top(ctx.projects_info)
           most_used_tags == Top(ctx.tag_counts)
           duration == GetD(current_entry.value, "duration", 0)
           current_activity ==
               [description |-> GetD(current_entry.value, "description", "No description"),
                project |-> None,
                started_at |-> Get(current_entry.value, "start"),
                started_at_local |->
                    IF Get(current_entry.value, "start") = None THEN None
                    ELSE utc_to_local(TheVal(current_entry.value["start"])),
                duration_so_far |-> IF TheVal(duration) < 0
                                    THEN Some(0 - TheVal(duration)) ELSE None]
           context ==
               [current_time_entry |-> Some(current_entry.value),
                current_activity |-> Some(current_activity),
                recent_work_summary |->
                    [period |-> "Last 7 days",
                     total_entries |-> Len(ctx.recent_entries),
                     \* total_hours == total_tracked_duration / 3600, kept in seconds
                     total_tracked_duration |-> ctx.total_tracked_duration,
                     most_used_projects |-> most_used_projects,
                     most_used_tags |-> most_used_tags,
                     distinct_activities |-> Cardinality(ctx.entry_descriptions)],
                timezone_info |-> "tz"]
       IN  ctx' = IF current_entry = Null
                  THEN [ctx EXCEPT !.ret = Raised("AttributeError"), !.pc = "raised"]
                  ELSE IF duration = None
                  THEN [ctx EXCEPT !.ret = Raised("TypeError"), !.pc = "raised"]
                  ELSE [ctx EXCEPT !.ret = Dict(context), !.pc = "done"]
    /\ UNCHANGED <<notQuery, range_call, fts_call, conv>>

\* the time entries of the backend for the work context: completed and
\* running entries of projects 1 to 3 with tags, without tags and with
\* tags null, one of them older than the window
CtxEntry(id, project, duration, tags) ==
    [id |-> Some(id), start |-> Some(Ts(NowUtc - 3600, ".000", "Z")),
     project_id |-> Some(project), duration |-> Some(duration), tags |-> Some(tags),
     description |-> Some(<<"a">>), workspace_id |-> Some(1)]
CtxEntries ==
    {CtxEntry(1, 1, 100, <<"t1", "t2">>),
     CtxEntry(2, 2, 100, <<"t2">>),
     CtxEntry(3, 2, -1, <<>>),
     [CtxEntry(4, 0, 50, <<>>) EXCEPT !["tags"] = None, !["project_id"] = None],
     [CtxEntry(5, 3, 200, <<"t3", "t1">>) EXCEPT !["workspace_id"] = Some(2)],
     [CtxEntry(6, 1, 999, <<"t9">>) EXCEPT
         !["start"] = Some(Ts(NowUtc - 8 * Day, ".000", "Z"))],
     [id |-> Some(7), start |-> Some(Ts(NowUtc - 60, ".000", "Z")),
      description |-> Some(<<"b">>)]}

\* a window of seven entries of seven projects, some of equal duration, the
\* first with seven tags
LongWindow ==
    <<CtxEntry(1, 7, 20, <<"t1", "t2", "t3", "t4", "t5", "t6", "t7">>),
      CtxEntry(2, 6, 30, <<"t7", "t6">>),
      CtxEntry(3, 5, 20, <<"t6">>),
      CtxEntry(4, 4, 10, <<>>),
      CtxEntry(5, 3, 20, <<"t3">>),
      CtxEntry(6, 2, 20, <<>>),
      CtxEntry(7, 1, 20, <<>>)>>

CtxInit ==
    /\ BatchIdle /\ ServiceIdle
    /\ criteria = <<>> /\ all_entries = NoRet /\ filtered_entries = <<>>
    /\ search_pc = "idle" /\ search_i = 1 /\ search_ret = NoRet
    /\ range_call = NoCall /\ fts_call = NoCall /\ conv = NoCall
    /\ ctx = CtxCall
    /\ backend_entries \in SeqsUpTo(CtxEntries, MaxEntries) \cup {LongWindow}

CtxNext == CtxCurrent \/ CtxRecent \/ CtxStatsStep \/ CtxProjects \/ CtxBuild

SpecContext == CtxInit /\ [][CtxNext]_vars

------------------------------------------------------------------------------
(* utils/timezone.py: the methods of TimezoneConverter called with any     *)
(* input                                                                   *)

\* wall-clock values of the timestamp texts: 2025-04-09T16:15:22 is
\* ScenarioA seconds after the midnight that starts the day before it
ScenarioA == Day + 16 * 3600 + 15 * 60 + 22
WallClocks == {0, Day - 1, ScenarioA, 2 * Day + 19800}
Fracs == {"", ".000", ".123"}
Zones == {"", "Z", "+00:00", "+05:30", "-05:00"}

TimeTexts == {Ts(t, f, z) : t \in WallClocks, f \in Fracs, z \in Zones}
OtherTexts == {Text(""), Text("soon"), Text("Z"), Text("2025-13-45T99:00:00")}

\* entries handed to enrich_time_entry_with_local_times: start, stop and
\* the two derived fields absent, None, empty or set (the derived ones
\* possibly stale)
EnrichValues ==
    [start |-> {None, Some(Text("")), Some(Ts(ScenarioA, ".000", "Z")),
                Some(Ts(0, "", "+00:00")), Some(Text("soon"))},
     stop |-> {None, Some(Text("")), Some(Ts(Day - 1, "", "Z"))},
     start_local |-> {Some([kind |-> "local", t |-> 7])},
     stop_local |-> {Some([kind |-> "local", t |-> 7])},
     description |-> {Some(<<"a">>)},
     duration |-> {Some(-1)}]
WithField(S, f) == S \cup {(f :> v) @@ e : e \in S, v \in EnrichValues[f]}
EnrichEntries ==
    WithField(WithField(WithField(WithField(WithField(WithField({<<>>},
        "start"), "stop"), "start_local"), "stop_local"), "description"), "duration")

\* clocks around the two transitions: the afternoon of the days 4 to 9, and
\* 01:00 in the night of each transition
DstNows ==
    {d * Day + 40000 : d \in 4..9}
        \cup {5 * Day + 3600 - TzOffset, 8 * Day + 3600 - (TzOffset + DstSaving)}

Conv(name, arg) == [name |-> name, arg |-> arg, calls |-> 0, ret |-> NoRet]

\* local_to_utc(local_time_str)
ConvLocalToUtc ==
    /\ conv.name = "local_to_utc" /\ conv.calls = 0
    /\ conv' = [conv EXCEPT !.calls = 1, !.ret = local_to_utc(conv.arg)]
    /\ UNCHANGED <<notQuery, range_call, fts_call, ctx>>

\* utc_to_local(utc_time_str)
ConvUtcToLocal ==
    /\ conv.name = "utc_to_local" /\ conv.calls = 0
    /\ conv' = [conv EXCEPT !.calls = 1, !.ret = utc_to_local(conv.arg)]
    /\ UNCHANGED <<notQuery, range_call, fts_call, ctx>>

\* get_date_range(days_offset); arg is <<now, days_offset>>
ConvGetDateRange ==
    /\ conv.name = "get_date_range" /\ conv.calls = 0
    /\ conv' = [conv EXCEPT !.calls = 1, !.ret = get_date_range(conv.arg[1], conv.arg[2])]
    /\ UNCHANGED <<notQuery, range_call, fts_call, ctx>>

\* enrich_time_entry_with_local_times(entry), on the entry itself the first
\* time and on what it returned the second time
ConvEnrich ==
    /\ conv.name = "enrich_time_entry_with_local_times" /\ conv.calls < 2
    /\ conv' = [conv EXCEPT !.calls = @ + 1,
                            !.ret = enrich_time_entry_with_local_times(
                                      IF conv.calls = 0 THEN conv.arg ELSE conv.ret)]
    /\ UNCHANGED <<notQuery, range_call, fts_call, ctx>>

ConvInit ==
    /\ BatchIdle /\ ServiceIdle
    /\ SearchIdle
    /\ range_call = NoCall /\ fts_call = NoCall /\ ctx = NoCall
    /\ \/ \E x \in TimeTexts \cup OtherTexts : conv = Conv("local_to_utc", x)
       \/ \E x \in TimeTexts \cup OtherTexts : conv = Conv("utc_to_local", x)
       \/ \E now \in Nows \cup DstNows, d \in DayOffsets :
            conv = Conv("get_date_range", <<now, d>>)
       \/ \E e \in EnrichEntries : conv = Conv("enrich_time_entry_with_local_times", e)

ConvNext == ConvLocalToUtc \/ ConvUtcToLocal \/ ConvGetDateRange \/ ConvEnrich

SpecConvert == ConvInit /\ [][ConvNext]_vars

------------------------------------------------------------------------------
(* helpers/time_entries.py: split_time_entry, with the new_time_entry and  *)
(* delete_time_entry it calls.  The backend adds the entry of a POST it    *)
(* answers with success and drops the entry of a DELETE it answers with    *)
(* success; a request it answers with an error changes nothing.            *)

\* everything but split_call, the request log and the backend's entries
notSplit == <<op, workspace_id, entries, pc, idx, results, errors, ret, tool,
              criteria, all_entries, filtered_entries, search_pc, search_i,
              search_ret, queryVars, lookup_call, pages_call, store, store_call,
              run_call, delete_call>>

SplitCall(time_entry_id, split_time) ==
    [name |-> "split_time_entry", time_entry_id |-> time_entry_id,
     split_time |-> split_time, all_entries |-> NoRet, entry_to_split |-> None,
     first_part |-> NoRet, second_part |-> NoRet, ret |-> NoRet, pc |-> "fetch"]

\* for entry in all_entries: if entry.get("id") == time_entry_id: ... break
RECURSIVE FindById(_, _, _)
FindById(list, id, n) ==
    IF n > Len(list) THEN None
    ELSE IF Get(list[n], "id") = Some(id) THEN Some(list[n])
    ELSE FindById(list, id, n + 1)

\* Python's < on two strs
StrLess(a, b) == ~StrLeq(b, a)

\* the id the backend gives the entry of the n-th request of the log
NewId(n) == 10 + n

\* the backend after a POST answered with success: the entry is added
Created(list, body, n) == Append(list, ("id" :> Some(NewId(n))) @@ body)

RECURSIVE Deleted(_, _, _)
\* the backend after a DELETE answered with success: the entry is gone
Deleted(list, id, n) ==
    IF n > Len(list) THEN <<>>
    ELSE IF Get(list[n], "id") = Some(id) THEN Deleted(list, id, n + 1)
    ELSE <<list[n]>> \o Deleted(list, id, n + 1)

\* all_entries = await client.get("/me/time_entries"), answered
SplitFetch ==
    /\ split_call.name = "split_time_entry" /\ split_call.pc = "fetch"
    /\ \E status \in HttpOutcomes :
         IF HttpOk(status)
         THEN split_call' = [split_call EXCEPT !.all_entries = List(backend_entries),
                                               !.pc = "check"]
         ELSE split_call' = [split_call EXCEPT
                               !.all_entries = Str(ClientError(status)),
                               !.ret = Str("Error retrieving time entries: "
                                           \o ClientError(status)),
                               !.pc = "done"]
    /\ requests' = Append(requests, Request("GET", <<"me", "time_entries">>, <<>>, 0))
    /\ UNCHANGED <<notSplit, inflight, backend_entries>>

\* lines 802-821: the entry looked up and the four checks
SplitCheck ==
    /\ split_call.name = "split_time_entry" /\ split_call.pc = "check"
    /\ LET entry_to_split == FindById(split_call.all_entries.value,
                                      split_call.time_entry_id, 1)
           entry == TheVal(entry_to_split)
           duration == GetD(entry, "duration", 0)
           entry_start == Get(entry, "start")
           entry_stop == Get(entry, "stop")
           split_time == split_call.split_time
           outcome ==
               IF entry_to_split = None
               THEN Str(<<"Error: No time entry found with ID", split_call.time_entry_id>>)
               \* None < 0
               ELSE IF duration = None THEN Raised("TypeError")
               ELSE IF TheVal(duration) < 0
               THEN Str(<<"Error: Cannot split a running time entry",
                          split_call.time_entry_id>>)
               ELSE IF ~TruthyTime(entry_start) \/ ~TruthyTime(entry_stop)
               THEN Str("Error: Time entry is missing start or stop time")
               ELSE IF \/ StrLeq(split_time, TheVal(entry_start))
                       \/ StrLeq(TheVal(entry_stop), split_time)
               THEN Str(<<"Error: Split time must be between the entry's start and stop",
                          TheVal(entry_start), TheVal(entry_stop)>>)
               ELSE NoRet
       IN  split_call' = [split_call EXCEPT
                            !.entry_to_split = entry_to_split,
                            !.ret = outcome,
                            !.pc = IF outcome = NoRet THEN "first" ELSE "done"]
    /\ UNCHANGED <<notSplit, requests, inflight, backend_entries>>

\* the arguments split_time_entry hands to new_time_entry for the part from
\* start to stop; duration is left to its default, -1
PartPayload(entry, start, stop) ==
    NewTimeEntryPayload(Get(entry, "workspace_id"), Get(entry, "description"),
                        Get(entry, "tags"), Get(entry, "project_id"),
                        start, stop, Some(-1), GetD(entry, "billable", FALSE))

\* new_time_entry called for a part: it returns at once without a
\* workspace_id, else the payload is posted
SplitPartSend(from_pc, await_pc, prefix, start, stop) ==
    /\ split_call.name = "split_time_entry" /\ split_call.pc = from_pc
    /\ LET entry == TheVal(split_call.entry_to_split)
       IN  IF Get(entry, "workspace_id") = None
           THEN /\ split_call' = [split_call EXCEPT
                     !.ret = Str(<<prefix,
                                   "Error: workspace_id must be provided to new_time_entry.">>),
                     !.pc = "done"]
                /\ UNCHANGED <<requests, inflight>>
           ELSE /\ requests' = Append(requests,
                                      Request("POST", <<"time_entries">>,
                                              StripNone(PartPayload(entry, start, stop)), 0))
                /\ inflight' = inflight \cup {Len(requests) + 1}
                /\ split_call' = [split_call EXCEPT !.pc = await_pc]
    /\ UNCHANGED <<notSplit, backend_entries>>

\* first_part = await new_time_entry(start=entry_start, stop=split_time)
SplitFirstSend ==
    SplitPartSend("first", "first_await", "Error creating first part of split",
                  Get(TheVal(split_call.entry_to_split), "start"),
                  Some(split_call.split_time))

\* second_part = await new_time_entry(start=split_time, stop=entry_stop)
SplitSecondSend ==
    SplitPartSend("second", "second_await", "Error creating second part of split",
                  Some(split_call.split_time),
                  Get(TheVal(split_call.entry_to_split), "stop"))

\* the response to the POST of a part: the error returned with its prefix,
\* or the part kept and the next step taken
SplitPartRecv(await_pc, next_pc, prefix, part) ==
    /\ split_call.name = "split_time_entry" /\ split_call.pc = await_pc
    /\ \E status \in HttpOutcomes :
         LET response == ClientResult(status, Len(requests))
         IN  IF IsStr(response)
             THEN /\ split_call' = [split_call EXCEPT
                                      !.ret = Str(<<prefix, response.value>>),
                                      !.pc = "done"]
                  /\ UNCHANGED backend_entries
             ELSE /\ split_call' = [split_call EXCEPT
                                      ![part] = [type |-> "tuple",
                                                 value |-> <<response.value, CurrentLocalTime>>],
                                      !.pc = next_pc]
                  /\ backend_entries' = Created(backend_entries,
                                                requests[Len(requests)].body, Len(requests))
    /\ inflight' = inflight \ {Len(requests)}
    /\ UNCHANGED <<notSplit, requests>>

SplitFirstRecv ==
    SplitPartRecv("first_await", "second", "Error creating first part of split", "first_part")

SplitSecondRecv ==
    SplitPartRecv("second_await", "delete", "Error creating second part of split",
                  "second_part")

\* delete_result = await delete_time_entry(...): the request leaves
SplitDeleteSend ==
    /\ split_call.name = "split_time_entry" /\ split_call.pc = "delete"
    /\ requests' = Append(requests,
                          Request("DELETE", <<"time_entries", split_call.time_entry_id>>,
                                  <<>>, 0))
    /\ inflight' = inflight \cup {Len(requests) + 1}
    /\ split_call' = [split_call EXCEPT !.pc = "delete_await"]
    /\ UNCHANGED <<notSplit, backend_entries>>

\* lines 862-873: the warning for a failed delete, else the split result
SplitDeleteRecv ==
    /\ split_call.name = "split_time_entry" /\ split_call.pc = "delete_await"
    /\ \E status \in HttpOutcomes :
         LET delete_result == ClientDeleteResult(status)
         IN  IF IsStr(delete_result)
             THEN /\ split_call' = [split_call EXCEPT
                        !.ret = Str(<<"Warning: Split succeeded but failed to delete original entry",
                                      delete_result.value>>),
                        !.pc = "done"]
                  /\ UNCHANGED backend_entries
             ELSE /\ split_call' = [split_call EXCEPT
                        !.ret = Dict([first_part |-> split_call.first_part.value[1],
                                      second_part |-> split_call.second_part.value[1],
                                      original_entry |-> TheVal(split_call.entry_to_split),
                                      local_time |-> split_call.first_part.value[2]]),
                        !.pc = "done"]
                  /\ backend_entries' = Deleted(backend_entries, split_call.time_entry_id, 1)
    /\ inflight' = inflight \ {Len(requests)}
    /\ UNCHANGED <<notSplit, requests>>

\* the entries the backend holds when a split is asked for: completed from
\* 200 to 3800, in the backend's "+00:00" spelling or in the "Z" one;
\* running; without a stop; without a duration (null); without a workspace
SplitEntries ==
    {[id |-> Some(1), description |-> Some(<<"a">>), workspace_id |-> Some(1),
      start |-> Some(Ts(200, "", "+00:00")), stop |-> Some(Ts(3800, "", "+00:00")),
      duration |-> Some(3600), tags |-> Some(<<"urgent">>)],
     [id |-> Some(1), workspace_id |-> Some(1), billable |-> Some(TRUE),
      start |-> Some(Ts(200, "", "Z")), stop |-> Some(Ts(3800, "", "Z"))],
     [id |-> Some(1), workspace_id |-> Some(1),
      start |-> Some(Ts(200, "", "Z")), duration |-> Some(-1)],
     [id |-> Some(1), workspace_id |-> Some(1),
      start |-> Some(Ts(200, "", "Z")), stop |-> None, duration |-> Some(0)],
     [id |-> Some(1), workspace_id |-> Some(1), start |-> Some(Ts(200, "", "Z")),
      stop |-> Some(Ts(3800, "", "Z")), duration |-> None],
     [id |-> Some(1), start |-> Some(Ts(200, "", "Z")),
      stop |-> Some(Ts(3800, "", "Z")), duration |-> Some(3600)],
     [id |-> Some(2), description |-> Some(<<"b">>), workspace_id |-> Some(1),
      start |-> Some(Ts(4000, "", "Z")), stop |-> Some(Ts(5000, "", "Z")),
      duration |-> Some(1000)]}

\* the backend gives every time entry an id of its own
UniqueIds(list) == \A j, k \in 1..Len(list) : j # k => list[j]["id"] # list[k]["id"]

\* the split times asked for: before the start, at the start, inside, at
\* the stop, after the stop, in several spellings
SplitTimes ==
    {Ts(100, "", "Z"), Ts(200, "", "Z"), Ts(200, ".000", "Z"), Ts(2000, "", "Z"),
     Ts(2000, "", "+00:00"), Ts(3800, "", "Z"), Ts(3800, "", ""), Ts(4500, "", "Z")}

SplitInit ==
    /\ BatchIdle /\ QueryIdle
    /\ criteria = <<>> /\ all_entries = NoRet /\ filtered_entries = <<>>
    /\ search_pc = "idle" /\ search_i = 1 /\ search_ret = NoRet
    /\ lookup_call = NoCall /\ pages_call = NoCall
    /\ store = EmptyStore /\ store_call = NoCall
    /\ run_call = NoCall /\ delete_call = NoCall
    /\ backend_entries \in {l \in SeqsUpTo(SplitEntries, MaxEntries) : UniqueIds(l)}
    /\ \E id \in {1, 2, 9}, t \in SplitTimes : split_call = SplitCall(id, t)

SplitNext ==
    \/ SplitFetch
    \/ SplitCheck
    \/ SplitFirstSend
    \/ SplitFirstRecv
    \/ SplitSecondSend
    \/ SplitSecondRecv
    \/ SplitDeleteSend
    \/ SplitDeleteRecv

SpecSplit == SplitInit /\ [][SplitNext]_vars

------------------------------------------------------------------------------
(* tools/time_entry_tools.py: delete_time_entry, the tool that deletes a   *)
(* time entry addressed by its description                                 *)

\* everything but lookup_call, the request log and the backend's entries
notLookup == <<op, workspace_id, entries, pc, idx, results, errors, ret, tool,
               criteria, all_entries, filtered_entries, search_pc, search_i,
               search_ret, queryVars, split_call, pages_call, store, store_call,
               run_call, delete_call>>

DeleteByName(time_entry_name, workspace_name) ==
    [name |-> "delete_time_entry", time_entry_name |-> time_entry_name,
     workspace_name |-> workspace_name, workspace_id |-> NoRet,
     time_entry_id |-> NoRet, ret |-> NoRet, pc |-> "workspace"]

\* the workspaces of the user: 1 ("w"), the default, and 2 ("v")
UserWorkspaces ==
    <<[id |-> Some(1), name |-> Some(<<"w">>)], [id |-> Some(2), name |-> Some(<<"v">>)]>>

\* lines 205-211: the workspace by default or by name
DeleteByNameWorkspace ==
    /\ lookup_call.name = "delete_time_entry" /\ lookup_call.pc = "workspace"
    /\ \E status \in HttpOutcomes :
         LET byDefault == lookup_call.workspace_name = None
             wid == IF byDefault THEN get_default_workspace_id(status, Some(1))
                    ELSE get_workspace_id_by_name(status, UserWorkspaces,
                                                  TheVal(lookup_call.workspace_name))
         IN  /\ requests' = Append(requests,
                                   Request("GET", IF byDefault THEN <<"me">>
                                                  ELSE <<"me", "workspaces">>, <<>>, 0))
             /\ lookup_call' = [lookup_call EXCEPT
                                  !.workspace_id = wid,
                                  !.ret = IF IsStr(wid) THEN wid ELSE NoRet,
                                  !.pc = IF IsStr(wid) THEN "done" ELSE "lookup"]
    /\ UNCHANGED <<notLookup, inflight, backend_entries>>

\* lines 213-216: time_entry_id = await get_time_entry_id_by_name(...)
DeleteByNameLookup ==
    /\ lookup_call.name = "delete_time_entry" /\ lookup_call.pc = "lookup"
    /\ \E status \in HttpOutcomes :
         LET time_entry_id ==
                 get_time_entry_id_by_name(status, backend_entries,
                                           lookup_call.time_entry_name,
                                           lookup_call.workspace_id.value)
         IN  lookup_call' = [lookup_call EXCEPT
                               !.time_entry_id = time_entry_id,
                               !.ret = IF IsStr(time_entry_id) THEN time_entry_id ELSE NoRet,
                               !.pc = IF IsStr(time_entry_id) THEN "done" ELSE "delete"]
    /\ requests' = Append(requests, Request("GET", <<"me", "time_entries">>, <<>>, 0))
    /\ UNCHANGED <<notLookup, inflight, backend_entries>>

\* lines 218-222: delete_status = await helper_delete_time_entry(...)
DeleteByNameSend ==
    /\ lookup_call.name = "delete_time_entry" /\ lookup_call.pc = "delete"
    /\ requests' = Append(requests,
                          Request("DELETE",
                                  <<"workspaces", lookup_call.workspace_id.value,
                                    "time_entries", lookup_call.time_entry_id.value>>,
                                  <<>>, 0))
    /\ inflight' = inflight \cup {Len(requests) + 1}
    /\ lookup_call' = [lookup_call EXCEPT !.pc = "await"]
    /\ UNCHANGED <<notLookup, backend_entries>>

\* lines 224-229: the message for the outcome of the delete
DeleteByNameRecv ==
    /\ lookup_call.name = "delete_time_entry" /\ lookup_call.pc = "await"
    /\ \E status \in HttpOutcomes :
         LET delete_status == ClientDeleteResult(status)
             time_entry_id == lookup_call.time_entry_id.value
         IN  IF delete_status.type = "int"
             THEN /\ lookup_call' = [lookup_call EXCEPT
                        !.ret = Str(<<"Successfully deleted the time entry with time_entry_id",
                                      time_entry_id>>),
                        !.pc = "done"]
                  /\ backend_entries' = Deleted(backend_entries, time_entry_id, 1)
             ELSE /\ lookup_call' = [lookup_call EXCEPT
                        !.ret = Str(<<"Failed to delete time_entry", time_entry_id,
                                      delete_status.value>>),
                        !.pc = "done"]
                  /\ UNCHANGED backend_entries
    /\ inflight' = inflight \ {Len(requests)}
    /\ UNCHANGED <<notLookup, requests>>

LookupInit ==
    /\ BatchIdle /\ QueryIdle
    /\ criteria = <<>> /\ all_entries = NoRet /\ filtered_entries = <<>>
    /\ search_pc = "idle" /\ search_i = 1 /\ search_ret = NoRet
    /\ split_call = NoCall /\ pages_call = NoCall
    /\ store = EmptyStore /\ store_call = NoCall
    /\ run_call = NoCall /\ delete_call = NoCall
    /\ backend_entries \in {l \in SeqsUpTo(ListEntries, MaxEntries) : UniqueIds(l)}
    /\ \E n \in {<<"a">>, <<"A", "b">>, <<"z">>}, wn \in {None, Some(<<"w">>), Some(<<"v">>)} :
         lookup_call = DeleteByName(n, wn)

LookupNext ==
    \/ DeleteByNameWorkspace
    \/ DeleteByNameLookup
    \/ DeleteByNameSend
    \/ DeleteByNameRecv

SpecLookup == LookupInit /\ [][LookupNext]_vars

------------------------------------------------------------------------------
(* utils/storage.py: PresetStorage.  The two JSON files are the two lists  *)
(* of store; a method reads its file (_load_json, None when the read       *)
(* fails), changes the list and writes it back (_save_json, False when the *)
(* write fails, the file then keeping what it held).                       *)

\* for i, existing in enumerate(items): if existing.get(key) == item[key]:
\*     items[i] = item; break
\* else: items.append(item)
Upsert(items, item, key) ==
    LET n == FirstMatch(items, key, TheVal(item[key]), 1)
    IN  IF n = 0 THEN Append(items, item) ELSE [items EXCEPT ![n] = item]

RECURSIVE Remove(_, _, _, _)
\* [p for p in items if p.get(key) != value]
Remove(items, key, value, n) ==
    IF n > Len(items) THEN <<>>
    ELSE IF Get(items[n], key) = Some(value) THEN Remove(items, key, value, n + 1)
    ELSE <<items[n]>> \o Remove(items, key, value, n + 1)

\* save_preset / save_recurring_entry on the list of its file: the list
\* written and the bool returned
SaveItem(items, item, key, load_ok, save_ok) ==
    \* if not preset.get('name') / if not recurring_entry.get('id')
    IF (IF key = "name" THEN Get(item, key) \in {None, Some(<<>>)}
        ELSE ~TruthyInt(Get(item, key)))
    THEN [items |-> items, ret |-> FALSE]
    \* if not data: data = {"version": 1, <list>: []}
    ELSE LET loaded == IF load_ok THEN items ELSE <<>>
         IN  IF save_ok THEN [items |-> Upsert(loaded, item, key), ret |-> TRUE]
             ELSE [items |-> items, ret |-> FALSE]

\* get_preset / get_recurring_entry: the first item with the key, or None
GetItem(items, key, value, load_ok) ==
    IF ~load_ok THEN None
    ELSE LET n == FirstMatch(items, key, value, 1)
         IN  IF n = 0 THEN None ELSE Some(items[n])

\* delete_preset / delete_recurring_entry
DeleteItem(items, key, value, load_ok, save_ok) ==
    IF ~load_ok THEN [items |-> items, ret |-> FALSE]
    ELSE LET new_items == Remove(items, key, value, 1)
         IN  IF Len(new_items) = Len(items) THEN [items |-> items, ret |-> FALSE]
             ELSE IF save_ok THEN [items |-> new_items, ret |-> TRUE]
             ELSE [items |-> items, ret |-> FALSE]

------------------------------------------------------------------------------
(* helpers/automation.py: create_recurring_entry, run_recurring_entry and  *)
(* delete_recurring_entry.  A coroutine runs alone from one await to the   *)
(* next, so each action is the code between two awaits.                    *)

\* how many recurring entries are created and how many runs are started
MaxRecurring == 2
MaxRuns == 2

\* everything but the store, the two calls and the request log
notRecurring == <<op, workspace_id, entries, pc, idx, results, errors, ret, tool,
                  searchVars, queryVars, split_call, lookup_call, pages_call,
                  store_call>>

\* the ids of the recurring entries of a list
IdsOf(items) == {TheVal(items[n]["id"]) : n \in 1..Len(items)}

\* ids for which delete_recurring_entry reported success so far
DeletedIds == IF delete_call = NoCall THEN {} ELSE delete_call.deleted

\* str(uuid.uuid4()): an id no recurring entry had before
FreshIds == (1..MaxRecurring) \ (IdsOf(store.recurring_entries) \cup DeletedIds)

\* lines 200-243, from the last lookup on: the configuration is built and
\* saved
CreateRecurringEntry ==
    /\ \E entry_id \in FreshIds, load_ok, save_ok \in BOOLEAN :
         LET recurring_entry == [id |-> Some(entry_id), description |-> Some(<<"a">>),
                                 workspace_id |-> Some(1), duration |-> Some(3600),
                                 last_run |-> None]
             saved == SaveItem(store.recurring_entries, recurring_entry, "id",
                               load_ok, save_ok)
         IN  store' = [store EXCEPT !.recurring_entries = saved.items]
    /\ UNCHANGED <<notRecurring, run_call, delete_call, inflight, requests>>

\* lines 309-339: the configuration is read and new_time_entry posts the
\* entry made from it
RunRecurringBegin ==
    /\ (IF run_call = NoCall THEN TRUE ELSE run_call.pc = "done")
    /\ Len(requests) < MaxRuns
    /\ \E entry_id \in 1..MaxRecurring, load_ok \in BOOLEAN :
         LET entry == GetItem(store.recurring_entries, "id", entry_id, load_ok)
             payload == NewTimeEntryPayload(Get(TheVal(entry), "workspace_id"),
                                            Get(TheVal(entry), "description"),
                                            Get(TheVal(entry), "tags"),
                                            Get(TheVal(entry), "project_id"),
                                            None, None,
                                            GetD(TheVal(entry), "duration", 3600),
                                            GetD(TheVal(entry), "billable", FALSE))
         IN  IF entry = None
             THEN /\ run_call' = [name |-> "run_recurring_entry", entry_id |-> entry_id,
                                  entry |-> None, pc |-> "done",
                                  ret |-> Str(<<"No recurring entry found with ID", entry_id>>)]
                  /\ UNCHANGED <<requests, inflight>>
             ELSE /\ run_call' = [name |-> "run_recurring_entry", entry_id |-> entry_id,
                                  entry |-> entry, pc |-> "await", ret |-> NoRet]
                  /\ requests' = Append(requests, Request("POST", <<"time_entries">>,
                                                          StripNone(payload), 0))
                  /\ inflight' = inflight \cup {Len(requests) + 1}
    /\ UNCHANGED <<notRecurring, store, delete_call>>

\* lines 345-347: entry["last_run"] = ...; preset_storage.save_recurring_entry(entry)
SaveLastRun(items, entry, load_ok, save_ok) ==
    SaveItem(items, entry, "id", load_ok, save_ok).items

\* lines 341-354: the response to the create; last_run saved after a success
RunRecurringRecv ==
    /\ run_call # NoCall /\ run_call.pc = "await"
    /\ \E status \in HttpOutcomes, load_ok, save_ok \in BOOLEAN :
         LET result == ClientResult(status, Len(requests))
             entry == [TheVal(run_call.entry) EXCEPT !.last_run = Some(CurrentUtcTime)]
         IN  IF IsStr(result)
             THEN /\ run_call' = [run_call EXCEPT
                        !.ret = Str(<<"Failed to create time entry from recurring configuration",
                                      result.value>>),
                        !.pc = "done"]
                  /\ UNCHANGED store
             ELSE /\ run_call' = [run_call EXCEPT
                        !.ret = Dict([time_entry |-> result.value,
                                      recurring_entry |-> entry,
                                      time |-> CurrentLocalTime]),
                        !.pc = "done"]
                  /\ store' = [store EXCEPT !.recurring_entries =
                                  SaveLastRun(store.recurring_entries, entry,
                                              load_ok, save_ok)]
    /\ inflight' = inflight \ {Len(requests)}
    /\ UNCHANGED <<notRecurring, delete_call, requests>>

\* delete_recurring_entry (lines 272-288): it has no await
DeleteRecurringEntry ==
    /\ \E entry_id \in 1..MaxRecurring, load_ok, save_ok \in BOOLEAN :
         LET deleted == DeleteItem(store.recurring_entries, "id", entry_id, load_ok, save_ok)
         IN  /\ store' = [store EXCEPT !.recurring_entries = deleted.items]
             /\ delete_call' =
                  [name |-> "delete_recurring_entry", entry_id |-> entry_id,
                   ret |-> IF deleted.ret
                           THEN Dict([success |-> TRUE,
                                      message |-> "Recurring entry deleted successfully"])
                           ELSE Str(<<"No recurring entry found with ID or deletion failed",
                                      entry_id>>),
                   deleted |-> IF deleted.ret THEN DeletedIds \cup {entry_id}
                               ELSE DeletedIds]
    /\ UNCHANGED <<notRecurring, run_call, inflight, requests>>

RecurringInit ==
    /\ BatchIdle /\ SearchIdle /\ QueryIdle /\ ServiceIdle

RecurringNext ==
    \/ CreateRecurringEntry
    \/ RunRecurringBegin
    \/ RunRecurringRecv
    \/ DeleteRecurringEntry

SpecRecurring == RecurringInit /\ [][RecurringNext]_vars

------------------------------------------------------------------------------
(* helpers/projects.py: get_projects_paginated, against a backend that     *)
(* serves the projects of the workspace page by page                       *)

\* how many projects the workspace holds at most, and the largest page size
MaxProjects == 5
MaxPageSize == 3

\* everything but pages_call and the request log
notPages == <<op, workspace_id, entries, pc, idx, results, errors, ret, tool,
              searchVars, queryVars, split_call, lookup_call, store, store_call,
              run_call, delete_call>>

PagesCall(projects, page_size, active_only) ==
    [name |-> "get_projects_paginated", projects |-> projects,
     page_size |-> page_size, active_only |-> active_only,
     all_projects |-> <<>>, page |-> 1, ret |-> NoRet, pc |-> "fetch"]

RECURSIVE ActiveOf(_, _)
\* the projects the backend lists for params["active"] = "true"
ActiveOf(projects, n) ==
    IF n > Len(projects) THEN <<>>
    ELSE IF projects[n]["active"] = Some(TRUE)
         THEN <<projects[n]>> \o ActiveOf(projects, n + 1)
         ELSE ActiveOf(projects, n + 1)

\* the projects a listing goes through
Served(projects, active_only) == IF active_only THEN ActiveOf(projects, 1) ELSE projects

\* the backend's answer to page p: the p-th block of per_page projects
PageOf(list, page, per_page) ==
    LET first == (page - 1) * per_page + 1
        last == IF page * per_page < Len(list) THEN page * per_page ELSE Len(list)
    IN  IF first > Len(list) THEN <<>> ELSE SubSeq(list, first, last)

\* params["page"] = page; response = await client.get(endpoint, params=params)
PagesSend ==
    /\ pages_call.name = "get_projects_paginated" /\ pages_call.pc = "fetch"
    /\ LET params == [per_page |-> Some(pages_call.page_size),
                      page |-> Some(pages_call.page)]
                     @@ (IF pages_call.active_only THEN [active |-> Some("true")] ELSE <<>>)
       IN  requests' = Append(requests, Request("GET", <<"projects">>, params, 0))
    /\ inflight' = inflight \cup {Len(requests) + 1}
    /\ pages_call' = [pages_call EXCEPT !.pc = "await"]
    /\ UNCHANGED notPages

\* (only the page just received kept)
ExtendMut(all_projects, response) == response
\* all_projects.extend(response)
Extend(all_projects, response) == all_projects \o response

\* lines 81-93: the error returned, the loop left on an empty or a short
\* page, or the next page asked for
PagesRecv ==
    /\ pages_call.name = "get_projects_paginated" /\ pages_call.pc = "await"
    /\ \E status \in HttpOutcomes :
         LET response == PageOf(Served(pages_call.projects, pages_call.active_only),
                                pages_call.page, pages_call.page_size)
             all_projects == Extend(pages_call.all_projects, response)
         IN  IF ~HttpOk(status)
             THEN pages_call' = [pages_call EXCEPT !.ret = Str(ClientError(status)),
                                                   !.pc = "done"]
             ELSE IF response = <<>>
             THEN pages_call' = [pages_call EXCEPT !.ret = List(pages_call.all_projects),
                                                   !.pc = "done"]
             ELSE IF Len(response) < pages_call.page_size
             THEN pages_call' = [pages_call EXCEPT !.all_projects = all_projects,
                                                   !.ret = List(all_projects),
                                                   !.pc = "done"]
             ELSE pages_call' = [pages_call EXCEPT !.all_projects = all_projects,
                                                   !.page = @ + 1,
                                                   !.pc = "fetch"]
    /\ inflight' = inflight \ {Len(requests)}
    /\ UNCHANGED <<notPages, requests>>

\* the projects of the workspace, in the backend's order: ids that are not
\* in increasing order, every second project archived
BackendProjects(count) ==
    [n \in 1..count |-> [id |-> Some(20 - ((7 * n) % 5) - 5 * (n % 2)),
                         active |-> Some(n % 2 = 1)]]

PagesInit ==
    /\ BatchIdle /\ SearchIdle /\ QueryIdle
    /\ split_call = NoCall /\ lookup_call = NoCall
    /\ store = EmptyStore /\ store_call = NoCall
    /\ run_call = NoCall /\ delete_call = NoCall
    /\ \E count \in 0..MaxProjects, page_size \in 1..MaxPageSize, active_only \in BOOLEAN :
         pages_call = PagesCall(BackendProjects(count), page_size, active_only)

PagesNext == PagesSend \/ PagesRecv

\* every request is answered, with a response or with an error, and the
\* coroutine goes on when it is
SpecPages == PagesInit /\ [][PagesNext]_vars /\ WF_vars(PagesNext)

------------------------------------------------------------------------------
(* utils/storage.py: save_preset, get_preset and delete_preset called in   *)
(* any order.  store_call keeps the last call, the list of presets.json    *)
(* before it, and what the calls made so far should have left: for each    *)
(* name the preset of the most recent save_preset, None after a            *)
(* delete_preset.                                                          *)

\* everything but the store and store_call
notPresets == <<batchVars, searchVars, queryVars, split_call, lookup_call, pages_call,
                run_call, delete_call>>

PresetNames == {<<"a">>, <<"b">>}

\* the presets handed to save_preset: two of each name, one with an empty
\* name and one without a name
Presets ==
    {[name |-> Some(n), description |-> Some(d)] : n \in PresetNames, d \in {<<"x">>, <<"y">>}}
        \cup {[name |-> Some(<<>>), description |-> Some(<<"x">>)],
              [description |-> Some(<<"x">>)]}

\* what the calls so far should have left, and whether a read or a write
\* of the file failed in one of them
SavedSoFar == IF store_call = NoCall THEN [n \in PresetNames |-> None] ELSE store_call.saved
LoadFailed == IF store_call = NoCall THEN FALSE ELSE store_call.load_failed
WriteFailed == IF store_call = NoCall THEN FALSE ELSE store_call.write_failed

StoreCall(name, arg, result, saved, load_ok, save_ok) ==
    [name |-> name, arg |-> arg, ret |-> result, before |-> store.presets,
     saved |-> saved, load_failed |-> LoadFailed \/ ~load_ok,
     write_failed |-> WriteFailed \/ ~save_ok]

\* save_preset(preset)
SavePreset ==
    /\ \E preset \in Presets, load_ok, save_ok \in BOOLEAN :
         LET saved == SaveItem(store.presets, preset, "name", load_ok, save_ok)
             named == Get(preset, "name") \in {Some(n) : n \in PresetNames}
         IN  /\ store' = [store EXCEPT !.presets = saved.items]
             /\ store_call' =
                  StoreCall("save_preset", preset, saved.ret,
                            IF named
                            THEN [SavedSoFar EXCEPT ![TheVal(preset["name"])] = Some(preset)]
                            ELSE SavedSoFar,
                            load_ok, save_ok)
    /\ UNCHANGED notPresets

\* get_preset(name)
GetPreset ==
    /\ \E name \in PresetNames, load_ok \in BOOLEAN :
         store_call' = StoreCall("get_preset", name,
                                 GetItem(store.presets, "name", name, load_ok),
                                 SavedSoFar, load_ok, TRUE)
    /\ UNCHANGED <<notPresets, store>>

\* delete_preset(name)
DeletePreset ==
    /\ \E name \in PresetNames, load_ok, save_ok \in BOOLEAN :
         LET deleted == DeleteItem(store.presets, "name", name, load_ok, save_ok)
         IN  /\ store' = [store EXCEPT !.presets = deleted.items]
             /\ store_call' = StoreCall("delete_preset", name, deleted.ret,
                                        [SavedSoFar EXCEPT ![name] = None],
                                        load_ok, save_ok)
    /\ UNCHANGED notPresets

PresetsInit ==
    /\ BatchIdle /\ SearchIdle /\ QueryIdle /\ ServiceIdle

PresetsNext == SavePreset \/ GetPreset \/ DeletePreset

SpecPresets == PresetsInit /\ [][PresetsNext]_vars

------------------------------------------------------------------------------
(* Properties of the bulk helpers *)

Done == pc = "done"

\* the succeeded and the failed list of a returned batch result
Succeeded(r) ==
    IF "success" \in DOMAIN r.value THEN r.value["success"] ELSE r.value["entries"]
Failed(r) == IF "errors" \in DOMAIN r.value THEN r.value["errors"] ELSE <<>>

\* the input position a succeeded / failed record stands for
ItemOf(rec) == IF "item" \in DOMAIN rec THEN rec.item ELSE requests[rec.req].item

ItemsOf(list) == [n \in 1..Len(list) |-> ItemOf(list[n])]

Increasing(list) == \A m, n \in 1..Len(list) : m < n => list[m] < list[n]

RequestsFor(item) == {n \in 1..Len(requests) : requests[n].item = item}

HasIdentifier(entry_data) == TruthyInt(Get(entry_data, "id"))

HelperRan(name) == op = name /\ tool = NoTool /\ workspace_id # None

\* C1: bulk_update_time_entries (helper) treats the items independently:
\* at every moment each item already passed that carries an identifier has
\* caused exactly one PUT, addressed to that identifier, each item without
\* one has caused no request and is in the failed list with the "Missing
\* time entry ID" error, whatever the backend answered for the others; the
\* call can always go on until it returns, and it returns a result holding
\* every item with an identifier in succeeded or failed and every item
\* without one in failed.
C1_BatchIndependence ==
    HelperRan("bulk_update") =>
      /\ \A item \in 1..Len(entries) :
           IF HasIdentifier(entries[item])
           THEN /\ Cardinality(RequestsFor(item)) = (IF item < idx \/ (item = idx /\ pc = "await") THEN 1 ELSE 0)
                /\ \A n \in RequestsFor(item) :
                     /\ requests[n].method = "PUT"
                     /\ requests[n].endpoint = <<"time_entries", TheVal(entries[item]["id"])>>
           ELSE /\ RequestsFor(item) = {}
                /\ item < idx =>
                     \E n \in 1..Len(errors) :
                        /\ errors[n].item = item
                        /\ errors[n].error = "Missing time entry ID"
                        /\ errors[n].data = entries[item]
      /\ ~Done => ENABLED BulkUpdate
      /\ Done =>
           /\ ret.type = "dict"
           /\ idx = Len(entries) + 1
           /\ \A item \in 1..Len(entries) :
                IF HasIdentifier(entries[item])
                THEN Cardinality({n \in 1..Len(Succeeded(ret)) : ItemOf(Succeeded(ret)[n]) = item})
                     + Cardinality({n \in 1..Len(Failed(ret)) : ItemOf(Failed(ret)[n]) = item}) = 1
                ELSE /\ Cardinality({n \in 1..Len(Failed(ret)) : ItemOf(Failed(ret)[n]) = item}) = 1
                     /\ \A n \in 1..Len(Succeeded(ret)) : ItemOf(Succeeded(ret)[n]) # item
           \* the three-input scenario
           /\ ( /\ Len(entries) = 3
                /\ HasIdentifier(entries[1]) /\ ~HasIdentifier(entries[2])
                /\ HasIdentifier(entries[3])
                /\ \A n \in 1..Len(errors) : errors[n].item = 2 )
              => /\ ItemsOf(Succeeded(ret)) = <<1, 3>>
                 /\ Len(Failed(ret)) = 1
                 /\ Failed(ret)[1].error = "Missing time entry ID"

\* C1 witness: three inputs, the second without an identifier, the first
\* rejected by the backend, and the third still sent and updated.
C1_Witness ==
    /\ HelperRan("bulk_update") /\ Done
    /\ Len(entries) = 3
    /\ HasIdentifier(entries[1]) /\ ~HasIdentifier(entries[2]) /\ HasIdentifier(entries[3])
    /\ ItemsOf(Failed(ret)) = <<1, 2>>
    /\ ItemsOf(Succeeded(ret)) = <<3>>

\* C3: when a bulk helper returns, every input item is in exactly one of
\* the succeeded and failed lists, both lists are in input order, and
\* bulk_delete's counts are the lengths of its two lists and add up to the
\* number of ids.
C3_BatchAccounting ==
    (Done /\ tool = NoTool /\ workspace_id # None) =>
      /\ Len(Succeeded(ret)) + Len(Failed(ret)) = Len(entries)
      /\ \A item \in 1..Len(entries) :
           Cardinality({n \in 1..Len(Succeeded(ret)) : ItemOf(Succeeded(ret)[n]) = item})
           + Cardinality({n \in 1..Len(Failed(ret)) : ItemOf(Failed(ret)[n]) = item}) = 1
      /\ Increasing(ItemsOf(Succeeded(ret)))
      /\ Increasing(ItemsOf(Failed(ret)))
      /\ op = "bulk_delete" =>
           /\ ret.value["success_count"] = Len(ret.value["success"])
           /\ ret.value["error_count"] = Len(ret.value["errors"])
           /\ ret.value["success_count"] + ret.value["error_count"] = Len(entries)

\* C3 witness: bulk_delete of three ids, the second unknown to the backend,
\* returns success_count 2 and error_count 1.
C3_Witness ==
    /\ HelperRan("bulk_delete") /\ Done
    /\ Len(entries) = 3
    /\ ItemsOf(ret.value["success"]) = <<1, 3>>
    /\ ItemsOf(ret.value["errors"]) = <<2>>
    /\ ret.value["success_count"] = 2
    /\ ret.value["error_count"] = 1

C5_NoWorkspaceNoRequest ==
    (tool = NoTool /\ workspace_id = None) =>
      /\ requests = <<>>
      /\ inflight = {}
      /\ pc \in {"start", "done"}
      /\ Done =>
           IF op = "bulk_delete"
           THEN ret.type = "dict" /\ DOMAIN ret.value = {"error"}
           ELSE IsStr(ret)

\* C5 witness: bulk_delete without workspace id, called with three ids,
\* has returned its error.
C5_Witness ==
    /\ tool = NoTool /\ workspace_id = None /\ Done
    /\ op = "bulk_delete" /\ Len(entries) = 3
    /\ "error" \in DOMAIN ret.value

PutRequests == {n \in 1..Len(requests) : requests[n].method = "PUT"}

SentFields(n) == DOMAIN requests[n].body \ {"created_with"}

\* C6 as claimed: the fields of every PUT body are exactly the updatable
\* fields present in the input entry.
C6_SentIsPresent ==
    HelperRan("bulk_update") =>
      \A n \in PutRequests :
         SentFields(n) = DOMAIN entries[requests[n].item] \cap UpdateFieldSet

\* C6 amended: the fields of every PUT body are exactly the updatable
\* fields present in the input entry with a value other than None, each
\* with the input's value; a field that is absent, or present as None, is
\* not sent.
C6_SentIsPresentNonNull ==
    HelperRan("bulk_update") =>
      \A n \in PutRequests :
         LET entry_data == entries[requests[n].item]
         IN  /\ SentFields(n) =
                  {f \in DOMAIN entry_data \cap UpdateFieldSet : entry_data[f] # None}
             /\ \A f \in SentFields(n) : requests[n].body[f] = entry_data[f]

\* C6 witness: an update whose input sets description, gives tags as None
\* and leaves the other fields out has been sent with description alone.
C6_Witness ==
    /\ HelperRan("bulk_update") /\ Done
    /\ DOMAIN entries[1] = {"id", "description", "tags"}
    /\ entries[1]["tags"] = None /\ entries[1]["description"] # None
    /\ PutRequests = {1}
    /\ SentFields(1) = {"description"}

------------------------------------------------------------------------------
(* Properties of the bulk_update_time_entries tool *)

ToolDone == pc = "tool_done"

NoIdentifier(entry) == "id" \notin DOMAIN entry /\ "description" \notin DOMAIN entry

\* named by a real id and with nothing to resolve by name
PlainById(entry) ==
    /\ "id" \in DOMAIN entry /\ TruthyInt(entry["id"])
    /\ "project_name" \notin DOMAIN entry

\* C2 as claimed: an entry of the tool's input with neither id nor
\* description is a per-item failure: the tool still returns a batch
\* result, and every other entry (here: entries given by id, needing no
\* name lookup) has been sent to the backend as a PUT.
C2_MissingIdentifierIsPerItem ==
    ( /\ ToolDone /\ workspace_id # None
      /\ \E i \in 1..Len(tool.entries) : NoIdentifier(tool.entries[i])
      /\ \E i \in 1..Len(tool.entries) : PlainById(tool.entries[i])
      /\ \A i \in 1..Len(tool.entries) :
            NoIdentifier(tool.entries[i]) \/ PlainById(tool.entries[i]) )
    => /\ tool.ret.type = "dict"
       /\ \A i \in 1..Len(tool.entries) :
            PlainById(tool.entries[i]) =>
               \E n \in PutRequests :
                  requests[n].endpoint = <<"time_entries", TheVal(tool.entries[i]["id"])>>

------------------------------------------------------------------------------
(* Properties of advanced_search_time_entries *)

SearchDone == search_pc = "done" /\ search_ret.type = "list"

Kept(entry) == entry \in Range(search_ret.value)

\* a filter is active when its criterion is set
TextActive(c) == c.search_text # None
ProjectActive(c) == c.project_ids # None
DateActive(c) == TruthyTime(c.start_date) \/ TruthyTime(c.end_date)
TagActive(c) == c.tags # None
DurationActive(c) == c.min_duration # None \/ c.max_duration # None
BillableActive(c) == c.billable # None
WorkspaceActive(c) == c.workspace_id # None

\* the entry passes every active filter; a filter that is not active
\* passes everything
PassesActive(entry) ==
    /\ TextActive(criteria) => _matches_text(entry, criteria)
    /\ ProjectActive(criteria) => _matches_project(entry, criteria)
    /\ DateActive(criteria) => _in_date_range(entry, criteria)
    /\ TagActive(criteria) => _has_tag(entry, criteria)
    /\ DurationActive(criteria) => _duration_in_range(entry, criteria)
    /\ BillableActive(criteria) => _matches_billable(entry, criteria)
    /\ WorkspaceActive(criteria) => _matches_workspace(entry, criteria)

\* C7 as claimed: a search with every criterion unset returns every entry
\* of the backend; an unset date range excludes no entry and unset duration
\* bounds exclude no entry.
C7_UnsetMatchesEverything ==
    SearchDone =>
      /\ criteria = NoCriteria => search_ret.value = backend_entries
      /\ \A n \in 1..Len(backend_entries) :
           LET entry == backend_entries[n]
           IN  /\ ~DateActive(criteria) => _in_date_range(entry, criteria)
               /\ ~DurationActive(criteria) => _duration_in_range(entry, criteria)

\* C8 as claimed: the search returns exactly the subsequence of the
\* backend's list made of the entries that pass every active filter.
C8_ExactlyTheMatches ==
    SearchDone => search_ret.value = SelectSeq(backend_entries, PassesActive)

HasStartAndDuration(entry) ==
    TruthyTime(Get(entry, "start")) /\ Get(entry, "duration") # None

\* C8 on the backends every entry of which has a start and a duration: the
\* search returns exactly the subsequence of the entries that pass every
\* active filter.
C8_ExactlyTheMatchesWithStartAndDuration ==
    (SearchDone /\ \A n \in 1..Len(backend_entries) : HasStartAndDuration(backend_entries[n]))
    => search_ret.value = SelectSeq(backend_entries, PassesActive)

\* the six filters other than the duration filter
OtherThanDuration(entry) ==
    /\ _matches_text(entry, criteria) /\ _matches_project(entry, criteria)
    /\ _in_date_range(entry, criteria) /\ _has_tag(entry, criteria)
    /\ _matches_billable(entry, criteria) /\ _matches_workspace(entry, criteria)

WithinBounds(d, c) ==
    /\ c.min_duration = None \/ TheVal(c.min_duration) <= d
    /\ c.max_duration = None \/ d <= TheVal(c.max_duration)

\* C9: among the entries that pass the other filters, a running entry
\* (negative duration) is returned whatever the duration bounds are, and an
\* entry with duration >= 0 is returned iff min <= duration <= max, an
\* absent bound being unbounded on its side.
C9_DurationFilter ==
    SearchDone =>
      \A n \in 1..Len(backend_entries) :
         LET entry == backend_entries[n]
             d == TheVal(entry["duration"])
         IN  ("duration" \in DOMAIN entry /\ entry["duration"] # None /\ OtherThanDuration(entry))
             => IF d < 0 THEN Kept(entry)
                ELSE Kept(entry) <=> WithinBounds(d, criteria)

\* C9 witness: with bounds (3600, 7200) a running entry of duration -1 has
\* been returned.
C9_Witness ==
    /\ SearchDone
    /\ criteria.min_duration = Some(3600) /\ criteria.max_duration = Some(7200)
    /\ \E n \in 1..Len(search_ret.value) : Get(search_ret.value[n], "duration") = Some(-1)

\* the six filters other than the tag filter
OtherThanTags(entry) ==
    /\ _matches_text(entry, criteria) /\ _matches_project(entry, criteria)
    /\ _in_date_range(entry, criteria) /\ _duration_in_range(entry, criteria)
    /\ _matches_billable(entry, criteria) /\ _matches_workspace(entry, criteria)

TagsOf(entry) == IF Get(entry, "tags") = None THEN {} ELSE Range(TheVal(entry["tags"]))

\* C10: with a tag filter set, an entry that passes the other filters is
\* returned iff at least one of its tags is among the filter's tags; an
\* entry without tags is not returned.
C10_TagFilterIsOr ==
    (SearchDone /\ criteria.tags # None) =>
      \A n \in 1..Len(backend_entries) :
         LET entry == backend_entries[n]
         IN  OtherThanTags(entry) =>
               (Kept(entry) <=> TagsOf(entry) \cap Range(TheVal(criteria.tags)) # {})

\* C10 witness: with tags = ["urgent"] the entry tagged urgent and billing
\* has been returned and the entry tagged billing has not.
C10_Witness ==
    /\ SearchDone
    /\ criteria = [tags |-> Some(<<"urgent">>)] @@ NoCriteria
    /\ Len(backend_entries) = 2
    /\ Get(backend_entries[1], "tags") = Some(<<"urgent", "billing">>)
    /\ Get(backend_entries[2], "tags") = Some(<<"billing">>)
    /\ search_ret.value = <<backend_entries[1]>>

------------------------------------------------------------------------------
(* Properties of the range query *)

\* the instant a timestamp text denotes, in UTC seconds
Instant(ts) == ts.t - TzSeconds(ts.tz)

\* get_time_entries_in_range has returned a list
RangeReturned ==
    /\ range_call.name = "get_time_entries_for_range"
    /\ range_call.pc \in {"returned", "done"}
    /\ range_call.entries.type = "list"

\* the entry's start denotes an instant of the half-open interval [lo, hi)
StartInside(entry, lo, hi) ==
    /\ Get(entry, "start") # None
    /\ Instant(lo) <= Instant(TheVal(entry["start"]))
    /\ Instant(TheVal(entry["start"])) < Instant(hi)

RECURSIVE Inside(_, _, _, _)
\* the entries of the list whose start is inside [lo, hi), in order
Inside(list, lo, hi, n) ==
    IF n > Len(list) THEN <<>>
    ELSE LET rest == Inside(list, lo, hi, n + 1)
         IN  IF StartInside(list[n], lo, hi) THEN <<list[n]>> \o rest ELSE rest

\* C11: for the day range D = day_range(0), half-open [start, end),
\* get_time_entries_in_range(D.start, D.end) returns an entry iff its start
\* lies inside D; an entry whose start equals D.end is excluded.
C11_RangeContainment ==
    (/\ RangeReturned
     /\ OffsetOf(range_call.from_day_offset) = 0
     /\ OffsetOf(range_call.to_day_offset) = 0) =>
        LET D == get_date_range(range_call.now, 0)
        IN  /\ range_call.start_time = Some(D[1]) /\ range_call.end_time = Some(D[2])
            /\ range_call.entries.value = Inside(backend_entries, D[1], D[2], 1)

\* what the comparison of the texts does for starts spelled as the range
\* is (milliseconds and Z): both ends of the range are included
C11_ClosedRangeOfCanonicalStarts ==
    (/\ RangeReturned
     /\ OffsetOf(range_call.from_day_offset) = 0
     /\ OffsetOf(range_call.to_day_offset) = 0) =>
        LET D == get_date_range(range_call.now, 0)
        IN  \A n \in 1..Len(backend_entries) :
               LET e == backend_entries[n]
               IN  (/\ Get(e, "start") # None
                    /\ TheVal(e["start"]).frac = ".000" /\ TheVal(e["start"]).tz = "Z") =>
                       (e \in Range(range_call.entries.value)
                          <=> /\ D[1].t <= TheVal(e["start"]).t
                              /\ TheVal(e["start"]).t <= D[2].t)

\* C12: with from_day_offset > to_day_offset, get_time_entries_for_range
\* returns zero time entries, whatever the backend holds.
C12_ReversedSpanIsEmpty ==
    (/\ RangeReturned
     /\ OffsetOf(range_call.from_day_offset) > OffsetOf(range_call.to_day_offset)) =>
        /\ range_call.entries.value = <<>>
        /\ range_call.pc = "done" => range_call.ret.value["time_entries"] = <<>>

\* a reversed span of more than one day is empty
C12_ReversedByTwoDaysIsEmpty ==
    (/\ RangeReturned
     /\ OffsetOf(range_call.from_day_offset) > OffsetOf(range_call.to_day_offset) + 1) =>
        range_call.entries.value = <<>>

------------------------------------------------------------------------------
(* Properties of the fetch of the three queries *)

\* the fetch of a query failed: what client.get returned, what the query
\* returned, the entries it kept
FetchFailures ==
    (IF search_pc = "done" /\ IsStr(all_entries)
     THEN {[error |-> all_entries, ret |-> search_ret, kept |-> filtered_entries]}
     ELSE {})
    \cup (IF range_call # NoCall /\ IsStr(range_call.all_entries)
          THEN {[error |-> range_call.all_entries, ret |-> range_call.entries, kept |-> <<>>]}
          ELSE {})
    \cup (IF range_call # NoCall /\ range_call.pc = "done" /\ IsStr(range_call.all_entries)
          THEN {[error |-> range_call.all_entries, ret |-> range_call.ret, kept |-> <<>>]}
          ELSE {})
    \cup (IF fts_call # NoCall /\ IsStr(fts_call.all_entries)
          THEN {[error |-> fts_call.all_entries, ret |-> fts_call.ret, kept |-> <<>>]}
          ELSE {})

------------------------------------------------------------------------------
(* Properties of TimezoneConverter *)

Converted(name) == conv.name = name /\ conv.calls >= 1

\* YYYY-MM-DDTHH:MM:SS, optionally followed by a fractional part and/or Z
WellFormedLocal(x) == x.kind = "ts" /\ x.tz \in {"", "Z"}

AcceptedUtc(x) == x.kind = "ts" /\ x.tz # ""

\* C17: for every instant x in an accepted form, the local time rendered by
\* utc_to_local(x), read back with the local UTC offset, is the instant x to
\* the second, and two accepted inputs denoting the same instant render the
\* same local time.
C17_UtcToLocalRoundTrip ==
    (Converted("utc_to_local") /\ AcceptedUtc(conv.arg)) =>
        /\ conv.ret # None
        /\ TheVal(conv.ret).kind = "local"
        /\ TheVal(conv.ret).t - TzOffset = Instant(conv.arg)
        /\ \A y \in TimeTexts :
              (AcceptedUtc(y) /\ Instant(y) = Instant(conv.arg)) =>
                  utc_to_local(y) = conv.ret

\* the round trip of the inputs that spell out no offset other than zero
C17_RoundTripAtZeroOffset ==
    (Converted("utc_to_local") /\ AcceptedUtc(conv.arg) /\ TzSeconds(conv.arg.tz) = 0) =>
        /\ conv.ret # None
        /\ TheVal(conv.ret).kind = "local"
        /\ TheVal(conv.ret).t - TzOffset = Instant(conv.arg)

Derived == {"start_local", "stop_local"}

\* C18: enrich_time_entry_with_local_times is idempotent and only adds the
\* two derived fields: a second call returns what the first returned, every
\* field other than start_local and stop_local keeps its value, start_local
\* (stop_local) is set, to utc_to_local of the field, only when start (stop)
\* is present and non-empty, and an entry with neither is returned
\* unchanged.
C18_EnrichIdempotent ==
    Converted("enrich_time_entry_with_local_times") =>
        LET e == conv.arg
            r == conv.ret
            has(f) == f \in DOMAIN e /\ TruthyTime(e[f])
            derived(f, l) ==
                IF has(f) THEN l \in DOMAIN r /\ r[l] = utc_to_local(TheVal(e[f]))
                ELSE Get(r, l) = Get(e, l) /\ (l \in DOMAIN r <=> l \in DOMAIN e)
        IN  /\ conv.calls = 2 => r = enrich_time_entry_with_local_times(e)
            /\ enrich_time_entry_with_local_times(r) = r
            /\ DOMAIN r \ Derived = DOMAIN e \ Derived
            /\ \A f \in DOMAIN e \ Derived : r[f] = e[f]
            /\ derived("start", "start_local")
            /\ derived("stop", "stop_local")
            /\ (~has("start") /\ ~has("stop")) => r = e

C18_Witness ==
    /\ Converted("enrich_time_entry_with_local_times") /\ conv.calls = 2
    /\ "start" \in DOMAIN conv.arg /\ TruthyTime(conv.arg["start"])
    /\ "stop" \notin DOMAIN conv.arg
    /\ "start_local" \in DOMAIN conv.arg
    /\ conv.ret["start_local"] # conv.arg["start_local"]
    /\ "stop_local" \notin DOMAIN conv.ret
    /\ "description" \in DOMAIN conv.ret

------------------------------------------------------------------------------
(* Properties of the tools that write *)

\* the create, update and delete requests sent so far
Writes == {n \in 1..Len(requests) : requests[n].method \in {"POST", "PUT", "DELETE"}}

\* the tool returned an error: a str, or a dict with the key "error"
ToolError ==
    \/ IsStr(tool.ret)
    \/ tool.ret.type = "dict" /\ "error" \in DOMAIN tool.ret.value

\* C14: in new_time_entry, bulk_create_time_entries,
\* bulk_update_time_entries and bulk_delete_time_entries, once a workspace,
\* project or time-entry name of the request has failed to resolve, for any
\* item of the batch, the tool returns an error and no create, update or
\* delete request has been or is sent for any item.
C14_UnresolvedNameNoWrite ==
    (tool # NoTool /\ tool.unresolved) =>
        /\ Writes = {}
        /\ pc = "tool_done"
        /\ ToolError

\* the name of the last item of a batch of three fails to resolve
C14_Witness ==
    /\ tool # NoTool /\ tool.unresolved /\ pc = "tool_done"
    /\ tool.name = "bulk_create_time_entries"
    /\ Len(tool.entries) = 3 /\ tool.i = 3
    /\ Len(tool.processed_entries) = 2
    /\ "project_id" \in DOMAIN tool.processed_entries[1]

\* a non-empty text that local_to_utc cannot parse
Unparseable(x) == TruthyTime(x) /\ TheVal(x).kind = "text"

\* the create request of new_time_entry
CreateRequests == {n \in 1..Len(requests) : requests[n].method = "POST"}

\* C15: for a non-empty start or stop that cannot be parsed, local_to_utc
\* returns the input unchanged with a report in which conversion_applied is
\* false and the error is set, and new_time_entry still sends the create
\* request, carrying that original text as start / stop.
C15_FailSoftConversion ==
    (tool # NoTool /\ tool.name = "new_time_entry"
       /\ pc \in {"start", "await", "done", "tool_done"} /\ ~ToolError) =>
        \A f \in {"start", "stop"} :
           Unparseable(tool[f]) =>
              LET report == tool.debug_info[f \o "_conversion"]
              IN  /\ report.value = tool[f]
                  /\ ~report.conversion_applied
                  /\ report.error
                  /\ pc # "start" =>
                        /\ CreateRequests # {}
                        /\ \A n \in CreateRequests : Get(requests[n].body, f) = tool[f]

C15_Witness ==
    /\ tool # NoTool /\ tool.name = "new_time_entry" /\ pc = "tool_done"
    /\ tool.start = Some(Text("soon")) /\ tool.stop = Some(Text("later"))
    /\ \E n \in CreateRequests :
          /\ requests[n].body["start"] = Some(Text("soon"))
          /\ requests[n].body["stop"] = Some(Text("later"))
    /\ "toggle_time_entry_response" \in DOMAIN tool.ret.value

------------------------------------------------------------------------------
(* Properties of get_work_context *)

CtxReturned == ctx.name = "get_work_context" /\ ctx.pc = "done"
CtxContext == CtxReturned /\ ctx.ret.type = "dict"

\* C19: get_work_context always gives a determinate outcome: for every
\* answer to the current-entry request (a running entry, an empty or null
\* payload, an error) and every list of recent entries it returns the
\* context or an error str and raises no exception; when no entry is
\* running, the context has current_time_entry and current_activity empty.
C19_DeterminateOutcome ==
    ctx.name = "get_work_context" =>
        /\ ctx.pc # "raised"
        /\ CtxReturned => ctx.ret.type \in {"dict", "str"}
        /\ (CtxContext /\ ctx.current_entry \in {Null, Dict(<<>>)}) =>
              /\ ctx.ret.value.current_time_entry \in {None, Some(<<>>)}
              /\ ctx.ret.value.current_activity = None

\* the current entry is an object whose duration, if any, is a number and
\* every recent entry has a list of tags or none
NothingNull ==
    /\ ctx.current_entry.type \in {"none", "str"}
       \/ /\ ctx.current_entry.type = "dict"
          /\ GetD(ctx.current_entry.value, "duration", 0) # None
    /\ \A n \in 1..Len(ctx.recent_entries) : GetD(ctx.recent_entries[n], "tags", <<>>) # None

\* without a null current entry, a null duration of it or null tags of a
\* recent entry, no exception is raised
C19_DeterminateWithoutNulls ==
    (ctx.name = "get_work_context" /\ NothingNull) =>
        /\ ctx.pc # "raised"
        /\ CtxReturned => ctx.ret.type \in {"dict", "str"}

\* the entry counts for the durations: its duration is positive
Counted(entry) ==
    TruthyInt(GetD(entry, "duration", 0)) /\ TheVal(GetD(entry, "duration", 0)) > 0

\* the sum of the positive durations of the wanted entries of the window
SumOfDurations(window, wanted) ==
    LET sum[n \in 0..Len(window)] ==
            IF n = 0 THEN 0
            ELSE sum[n - 1] + (IF Counted(window[n]) /\ wanted[n]
                               THEN TheVal(window[n]["duration"]) ELSE 0)
    IN  sum[Len(window)]

OfProject(window, p) ==
    [n \in 1..Len(window) |-> Get(window[n], "project_id") = Some(p)]

ProjectKeys(window) ==
    {TheVal(window[n]["project_id"]) :
       n \in {m \in 1..Len(window) : Counted(window[m])
                                    /\ TruthyInt(Get(window[m], "project_id"))}}

TagsIn(entry) == TheVal(GetD(entry, "tags", <<>>))
TagKeys(window) == UNION {Range(TagsIn(window[n])) : n \in 1..Len(window)}
TagCount(window, t) ==
    LET sum[n \in 0..Len(window)] ==
            IF n = 0 THEN 0
            ELSE sum[n - 1] + Cardinality({k \in 1..Len(TagsIn(window[n])) :
                                             TagsIn(window[n])[k] = t})
    IN  sum[Len(window)]

Least(S) == CHOOSE x \in S : \A y \in S : x <= y
\* where the project / the tag is first met in the window
FirstProject(window, p) ==
    Least({n \in 1..Len(window) : Counted(window[n]) /\ OfProject(window, p)[n]})
FirstTag(window, t) ==
    Least({100 * pos[1] + pos[2] :
             pos \in {q \in (1..Len(window)) \X (1..7) :
                        /\ q[2] <= Len(TagsIn(window[q[1]]))
                        /\ TagsIn(window[q[1]])[q[2]] = t}})

\* list is the top of the ranking of keys by val, greatest first, keys of
\* equal val in the order of first
RankedTop(list, keys, val, first) ==
    /\ Len(list) = (IF Cardinality(keys) < TopN THEN Cardinality(keys) ELSE TopN)
    /\ \A j \in 1..Len(list) : list[j].key \in keys /\ list[j].value = val[list[j].key]
    /\ \A j, k \in 1..Len(list) :
          j < k => /\ list[j].key # list[k].key
                   /\ \/ list[j].value > list[k].value
                      \/ /\ list[j].value = list[k].value
                         /\ first[list[j].key] < first[list[k].key]
    /\ \A p \in keys \ {list[j].key : j \in 1..Len(list)} :
          \A j \in 1..Len(list) :
             \/ list[j].value > val[p]
             \/ list[j].value = val[p] /\ first[list[j].key] < first[p]

\* C20 for the tracked time and the tags: the total is the sum of the
\* positive durations of the window, most_used_tags is the top 5 of the
\* ranking of the tags by occurrence count, tags of equal count in the order
\* in which the window's entries first show them.
C20_TotalAndTags ==
    CtxContext =>
        LET window == ctx.recent_entries
            summary == ctx.ret.value.recent_work_summary
            count == [t \in TagKeys(window) |-> TagCount(window, t)]
            first == [t \in TagKeys(window) |-> FirstTag(window, t)]
        IN  /\ summary.total_tracked_duration =
                  SumOfDurations(window, [n \in 1..Len(window) |-> TRUE])
            /\ RankedTop(summary.most_used_tags, TagKeys(window), count, first)

\* C20: the total tracked time is the sum of the positive durations of the
\* window's entries; most_used_projects is the top 5 of the ranking of the
\* projects by accumulated duration and most_used_tags the top 5 of the
\* ranking of the tags by occurrence count, both in non-increasing order,
\* equal keys in the order in which the window's entries first show them.
C20_WorkContextSummary ==
    CtxContext =>
        LET window == ctx.recent_entries
            summary == ctx.ret.value.recent_work_summary
            accum == [p \in ProjectKeys(window) |->
                        SumOfDurations(window, OfProject(window, p))]
            first == [p \in ProjectKeys(window) |-> FirstProject(window, p)]
        IN  /\ C20_TotalAndTags
            /\ RankedTop(summary.most_used_projects, ProjectKeys(window), accum, first)

\* the context of the window of seven projects and seven tags
C20_LongWindowSummarised ==
    /\ CtxContext /\ ctx.recent_entries = LongWindow
    /\ Len(ctx.ret.value.recent_work_summary.most_used_tags) = TopN
    /\ Len(ctx.ret.value.recent_work_summary.most_used_projects) = TopN

------------------------------------------------------------------------------
(* Properties of full_text_search *)

\* the characters of the tags of the model
Spell(tag) ==
    CASE tag = "urgent" -> <<"u", "r", "g", "e", "n", "t">>
      [] tag = "billing" -> <<"b", "i", "l", "l", "i", "n", "g">>

\* the entry's tag list includes a tag containing the query
TagContainsQuery(entry, query, case_sensitive) ==
    /\ Get(entry, "tags") # None
    /\ \E n \in 1..Len(TheVal(Get(entry, "tags"))) :
          LET tag == Spell(TheVal(Get(entry, "tags"))[n])
          IN  IF case_sensitive THEN Contains(query, tag)
              ELSE Contains(Lower(query), Lower(tag))

FtsReturned ==
    /\ fts_call.name = "full_text_search" /\ fts_call.pc = "done"
    /\ fts_call.ret.type = "list"

\* C21: when "tags" is among the searched fields, every fetched entry whose
\* tag list includes a tag containing the query text is returned.
C21_TagSearchFindsTaggedEntries ==
    (FtsReturned /\ "tags" \in Range(fts_call.search_fields)) =>
        \A n \in 1..Len(backend_entries) :
           TagContainsQuery(backend_entries[n], fts_call.query, fts_call.case_sensitive)
              => backend_entries[n] \in Range(fts_call.ret.value)

\* what the code does: only the fields that hold a str are looked at, so a
\* search of "tags" alone returns nothing
C21_TagsAloneFindNothing ==
    (FtsReturned /\ fts_call.search_fields = <<"tags">>) => fts_call.ret.value = <<>>

------------------------------------------------------------------------------
(* Properties of split_time_entry and of the create requests *)

SplitDone == split_call.name = "split_time_entry" /\ split_call.pc = "done"

\* the caller of the operation that issued the n-th request asked for a
\* running entry: a negative duration among the arguments it gave (a split
\* has no such argument)
AskedRunning(n) ==
    IF split_call # NoCall THEN FALSE
    ELSE IF op = "bulk_create"
    THEN LET entry_data == entries[requests[n].item]
         IN  /\ Get(entry_data, "duration") # None
             /\ TheVal(Get(entry_data, "duration")) < 0
    ELSE /\ tool.name = "new_time_entry"
         /\ tool.duration # None /\ TheVal(tool.duration) < 0

\* C22: in every create request sent to the backend, a payload that carries
\* a stop time has no negative duration (it is absent or >= 0), unless the
\* caller explicitly asked for a running entry.
C22_NoNegativeDurationForCompleted ==
    \A n \in CreateRequests :
       LET body == requests[n].body
       IN  "stop" \in DOMAIN body =>
              \/ "duration" \notin DOMAIN body
              \/ TheVal(body["duration"]) >= 0
              \/ AskedRunning(n)

\* what the code does: each part of a split is posted with its stop time
\* and the duration -1
C22_SplitPartsPostedAsRunning ==
    \A n \in CreateRequests :
       split_call # NoCall =>
          /\ "stop" \in DOMAIN requests[n].body
          /\ requests[n].body["duration"] = Some(-1)

\* the positions of the log that hold a write, in order
RECURSIVE WriteLog(_)
WriteLog(n) ==
    IF n = 0 THEN <<>>
    ELSE IF requests[n].method \in {"POST", "PUT", "DELETE"}
         THEN Append(WriteLog(n - 1), requests[n])
         ELSE WriteLog(n - 1)

\* the writes of a split are a prefix of: create the first part, create the
\* second part, delete the original
SplitWritesInOrder ==
    LET w == WriteLog(Len(requests))
        entry == TheVal(split_call.entry_to_split)
    IN  /\ Len(w) <= 3
        /\ Len(w) >= 1 => /\ w[1].method = "POST"
                          /\ w[1].body["start"] = Get(entry, "start")
                          /\ w[1].body["stop"] = Some(split_call.split_time)
        /\ Len(w) >= 2 => /\ w[2].method = "POST"
                          /\ w[2].body["start"] = Some(split_call.split_time)
                          /\ w[2].body["stop"] = Get(entry, "stop")
        /\ Len(w) >= 3 => /\ w[3].method = "DELETE"
                          /\ w[3].endpoint = <<"time_entries", split_call.time_entry_id>>

\* no further write after a failed create, and the original deleted only
\* after both parts were created
SplitStopsAtFirstError ==
    LET w == WriteLog(Len(requests))
    IN  /\ (Len(w) >= 2 \/ split_call.pc \in {"second", "second_await"})
            => split_call.first_part.type = "tuple"
        /\ (Len(w) >= 3 \/ split_call.pc \in {"delete", "delete_await"})
            => split_call.second_part.type = "tuple"
        /\ (SplitDone /\ split_call.first_part.type # "tuple") => Len(w) <= 1
        /\ (SplitDone /\ split_call.second_part.type # "tuple") => Len(w) <= 2

\* the entry the split is asked for, as it was fetched
SplitTarget == FindById(split_call.all_entries.value, split_call.time_entry_id, 1)

\* the entry is not found, is running (or has a null duration) or lacks
\* its start or its stop
NoCompletedTarget ==
    \/ SplitTarget = None
    \/ LET entry == TheVal(SplitTarget)
       IN  \/ GetD(entry, "duration", 0) = None
           \/ TheVal(GetD(entry, "duration", 0)) < 0
           \/ ~TruthyTime(Get(entry, "start")) \/ ~TruthyTime(Get(entry, "stop"))

\* the split time is later than the start and earlier than the stop
StrictlyBetween ==
    LET entry == TheVal(SplitTarget)
    IN  /\ Instant(TheVal(Get(entry, "start"))) < Instant(split_call.split_time)
        /\ Instant(split_call.split_time) < Instant(TheVal(Get(entry, "stop")))

\* the split time and the entry's times are spelled alike
SpelledAlike ==
    LET entry == TheVal(SplitTarget)
        suffix(ts) == <<ts.frac, ts.tz>>
    IN  /\ suffix(TheVal(Get(entry, "start"))) = suffix(split_call.split_time)
        /\ suffix(TheVal(Get(entry, "stop"))) = suffix(split_call.split_time)

SplitChecked == split_call.name = "split_time_entry" /\ split_call.pc \notin {"fetch", "check"}

\* C24: the backend writes of split_time_entry happen in the order create
\* first part, create second part, delete original; a precondition failure
\* (entry not found, entry running, missing start or stop, split time not
\* strictly between start and stop) issues no write; no write follows a
\* failed create; the original is deleted only after both parts were
\* created.
C24_SplitPropagatesFirstError ==
    SplitChecked =>
        /\ SplitWritesInOrder
        /\ SplitStopsAtFirstError
        /\ (split_call.all_entries.type = "list"
              /\ (NoCompletedTarget \/ ~StrictlyBetween))
            => WriteLog(Len(requests)) = <<>>

\* C24 for split times spelled as the entry's times are
C24_SplitOfTimesSpelledAlike ==
    SplitChecked =>
        /\ SplitWritesInOrder
        /\ SplitStopsAtFirstError
        /\ (split_call.all_entries.type = "list"
              /\ (NoCompletedTarget \/ (SpelledAlike /\ ~StrictlyBetween)))
            => WriteLog(Len(requests)) = <<>>
        /\ split_call.all_entries.type # "list" => WriteLog(Len(requests)) = <<>>

\* C25: whenever split_time_entry returns an error or warning string instead
\* of the split result, the backend's set of time entries is the same as
\* before the call.
C25_SplitAllOrNothing ==
    (SplitDone /\ IsStr(split_call.ret) /\ split_call.all_entries.type = "list")
        => backend_entries = split_call.all_entries.value

\* what holds: nothing is written when a check before the first create
\* fails, and only the full split removes the original
C25_NoWriteBeforeFirstCreate ==
    SplitDone =>
        /\ (split_call.first_part.type # "tuple" /\ split_call.all_entries.type = "list")
              => backend_entries = split_call.all_entries.value
        /\ split_call.ret.type = "dict"
              => /\ FindById(backend_entries, split_call.time_entry_id, 1) = None
                 /\ Len(backend_entries) = Len(split_call.all_entries.value) + 1

------------------------------------------------------------------------------
(* Properties of the order of the requests of a batch *)

BulkOps == {"bulk_create", "bulk_update", "bulk_delete"}

\* the response for the input item was received and recorded, in results
\* or in errors
Recorded(item) ==
    \/ \E n \in 1..Len(results) : ItemOf(results[n]) = item
    \/ \E n \in 1..Len(errors) : ItemOf(errors[n]) = item

\* C23: within one bulk_create_time_entries, bulk_update_time_entries or
\* bulk_delete_time_entries call the backend requests are strictly
\* sequential and in input order: at most one request of the batch is in
\* flight at any time, and every request but the one in flight has had its
\* response received and recorded before the next one was issued.
C23_StrictlySequential ==
    (op \in BulkOps /\ tool = NoTool) =>
        /\ Cardinality(inflight) <= 1
        /\ inflight \subseteq {Len(requests)}
        /\ Increasing([n \in 1..Len(requests) |-> requests[n].item])
        /\ \A n \in 1..Len(requests) : n \in inflight \/ Recorded(requests[n].item)
        /\ \A n \in 1..Len(requests) : requests[n].item <= idx

\* C23 witness: the third request of a batch is in flight, the responses
\* for the first two, one of them an error, are recorded
C23_Witness ==
    /\ op \in BulkOps /\ tool = NoTool
    /\ Len(requests) = 3 /\ inflight = {3}
    /\ Len(results) = 1 /\ Len(errors) = 1
    /\ Recorded(1) /\ Recorded(2) /\ ~Recorded(3)

------------------------------------------------------------------------------
(* Properties of the lookup of a time entry by its description *)

\* the lookup by name returned an id
LookupReturnedId ==
    /\ lookup_call.name = "delete_time_entry"
    /\ lookup_call.time_entry_id.type = "int"

\* the entries the backend held when the lookup fetched them: the tool's
\* delete, its only write, comes after the lookup
EntriesAtLookup(id) ==
    {n \in 1..Len(backend_entries) : Get(backend_entries[n], "id") = Some(id)}

\* C27: whenever get_time_entry_id_by_name(name, workspace_id) returns an
\* id, that id belongs to a time entry whose description equals name and
\* whose workspace_id equals the workspace_id argument.
C27_LookupStaysInWorkspace ==
    (LookupReturnedId /\ lookup_call.pc = "delete") =>
        \E n \in EntriesAtLookup(lookup_call.time_entry_id.value) :
           /\ Get(backend_entries[n], "description") = Some(lookup_call.time_entry_name)
           /\ Get(backend_entries[n], "workspace_id") = Some(lookup_call.workspace_id.value)

\* what holds: the id is that of the first fetched entry with the
\* description, whatever its workspace
C27_LookupByDescriptionOnly ==
    (LookupReturnedId /\ lookup_call.pc = "delete") =>
        \E n \in EntriesAtLookup(lookup_call.time_entry_id.value) :
           /\ Get(backend_entries[n], "description") = Some(lookup_call.time_entry_name)
           /\ \A m \in 1..(n - 1) :
                 Get(backend_entries[m], "description") # Some(lookup_call.time_entry_name)

------------------------------------------------------------------------------
(* Properties of the recurring entries *)

\* C26: under every interleaving of run_recurring_entry with
\* delete_recurring_entry, once delete_recurring_entry has reported success
\* for an id the recurring entry of that id stays absent from the store (an
\* id is never given twice by create_recurring_entry): run_recurring_entry's
\* final save of last_run never re-inserts a deleted entry.
C26_DeletedStaysDeleted ==
    \A entry_id \in DeletedIds : entry_id \notin IdsOf(store.recurring_entries)

\* what holds: a deleted entry is only ever in the store again with the
\* last_run a run has saved
C26_ReinsertedOnlyByRun ==
    \A n \in 1..Len(store.recurring_entries) :
       TheVal(store.recurring_entries[n]["id"]) \in DeletedIds
          => store.recurring_entries[n]["last_run"] # None

------------------------------------------------------------------------------
(* Properties of get_date_range *)

DateRangeDone == conv.name = "get_date_range" /\ conv.calls = 1

\* the wall clock of the zone at a UTC instant
WallAt(t) == t + fromutc(t)

\* the local days on which the clocks change
TransitionDays == {DstStart \div Day, DstEnd \div Day}

\* C28: get_date_range(k) starts at local midnight of (today + k) and ends
\* at the next local midnight, so get_date_range(k).end =
\* get_date_range(k+1).start; on a DST transition day the UTC interval is 23
\* or 25 hours long, on the other days 24 hours.
C28_LocalDaysTile ==
    DateRangeDone =>
        LET now == conv.arg[1]
            k == conv.arg[2]
            day == (WallAt(now) \div Day) + k
            start == conv.ret[1].t
            end == conv.ret[2].t
        IN  /\ WallAt(start) = day * Day
            /\ WallAt(end) = (day + 1) * Day
            /\ conv.ret[2] = get_date_range(now, k + 1)[1]
            /\ conv.ret[1] = get_date_range(now, k - 1)[2]
            /\ IF day \in TransitionDays
               THEN end - start \in {23 * 3600, 25 * 3600}
               ELSE end - start = 24 * 3600

\* C28 witness: the range of the day the clocks go forward, asked for on the
\* day before, is 23 hours long
C28_Witness ==
    /\ DateRangeDone
    /\ conv.arg[2] = 1
    /\ (WallAt(conv.arg[1]) \div Day) + 1 = DstStart \div Day
    /\ conv.ret[2].t - conv.ret[1].t = 23 * 3600

------------------------------------------------------------------------------
(* Properties of get_projects_paginated *)

PagesDone == pages_call.name = "get_projects_paginated" /\ pages_call.pc = "done"

\* the pages it takes to list count projects: the last one is short or empty
PagesNeeded(count, page_size) == (count \div page_size) + 1

\* while the loop runs the projects gathered are the first pages of the
\* listing; when it ends without error every project was returned exactly
\* once, in backend order; a backend error ends it at once, with that error
\* and no list; no more pages are asked for than the listing has
PagesSafety ==
    pages_call.name = "get_projects_paginated" =>
        LET listing == Served(pages_call.projects, pages_call.active_only)
        IN  /\ Len(requests) <= PagesNeeded(Len(listing), pages_call.page_size)
            /\ \A n \in 1..Len(requests) : requests[n].body["page"] = Some(n)
            /\ Len(pages_call.all_projects) <= Len(listing)
            /\ pages_call.all_projects = SubSeq(listing, 1, Len(pages_call.all_projects))
            /\ (PagesDone /\ pages_call.ret.type = "list") => pages_call.ret.value = listing
            /\ pages_call.ret.type = "str" =>
                  /\ PagesDone
                  /\ pages_call.ret.value \in {ClientError(s) : s \in HttpOutcomes \ {200}}
                  /\ Len(requests) = pages_call.page
            /\ PagesDone => pages_call.ret.type \in {"list", "str"}

\* C29: get_projects_paginated terminates: for every page_size >= 1 and
\* every backend that serves its finitely many projects page by page, the
\* loop ends after finitely many requests and returns every project exactly
\* once, in backend order; a backend error on any page ends the loop at once
\* with that error and no partial list.
C29_PaginationTerminates == []PagesSafety /\ <>PagesDone

\* C29 witness: five projects listed in three pages of two
C29_Witness ==
    /\ PagesDone
    /\ pages_call.page_size = 2 /\ ~pages_call.active_only
    /\ Len(requests) = 3
    /\ pages_call.ret.type = "list" /\ Len(pages_call.ret.value) = 5

------------------------------------------------------------------------------
(* Properties of the preset store *)

\* the preset of a name in a list of presets
PresetOf(items, name) == GetItem(items, "name", name, TRUE)

\* the store holds at most one preset per name; get_preset(n) returns the
\* preset of the most recent save_preset of that name unless a
\* delete_preset(n) followed it; save_preset and delete_preset leave the
\* presets of the other names unchanged; delete_preset(n) returns False and
\* changes nothing when no preset is named n
PresetStoreInvariant ==
    /\ \A j, k \in 1..Len(store.presets) :
          j # k => store.presets[j]["name"] # store.presets[k]["name"]
    /\ store_call # NoCall =>
          /\ store_call.name = "get_preset" => store_call.ret = SavedSoFar[store_call.arg]
          /\ \A n \in PresetNames : PresetOf(store.presets, n) = SavedSoFar[n]
          /\ store_call.name = "save_preset" =>
                \A n \in PresetNames :
                   Get(store_call.arg, "name") # Some(n)
                      => PresetOf(store.presets, n) = PresetOf(store_call.before, n)
          /\ store_call.name = "delete_preset" =>
                /\ \A n \in PresetNames \ {store_call.arg} :
                      PresetOf(store.presets, n) = PresetOf(store_call.before, n)
                /\ PresetOf(store_call.before, store_call.arg) = None =>
                      /\ store_call.ret = FALSE
                      /\ store.presets = store_call.before

\* C30: after any sequence of save_preset and delete_preset calls, each file
\* write succeeding, the preset store invariant holds.
C30_PresetStoreInvariant == ~WriteFailed => PresetStoreInvariant

\* C30 when every read of the file succeeds as well
C30_WhenEveryReadSucceeds == (~WriteFailed /\ ~LoadFailed) => PresetStoreInvariant

\* two presets stored, one saved twice, and a get_preset answered with the
\* later one
C30_TwoPresetsStored ==
    /\ store_call # NoCall /\ ~WriteFailed /\ ~LoadFailed
    /\ store_call.name = "get_preset"
    /\ Len(store.presets) = 2
    /\ store_call.ret = Some([name |-> Some(<<"a">>), description |-> Some(<<"y">>)])
    /\ store.presets[1] = [name |-> Some(<<"a">>), description |-> Some(<<"y">>)]

====
